---- MODULE Spec2Model ----
(***************************************************************************)
(* Verification model of radproc (RADOLAN composite processing).           *)
(*                                                                         *)
(* The module holds one state machine per component; each component has    *)
(* its own specification (SpecHeader, SpecRunlength, ...) that starts the  *)
(* component on inputs drawn from bounded sets and leaves the variables of *)
(* the other components idle.                                              *)
(*                                                                         *)
(* Conventions                                                             *)
(*   - Python sequences are 0-based, TLA+ sequences 1-based: element k of  *)
(*     a Python list is element k+1 here; index arithmetic is kept in the  *)
(*     Python numbering and shifted at the point of access.                *)
(*   - A raised exception is a record/status naming the exception class.   *)
(***************************************************************************)
EXTENDS Integers, Sequences, FiniteSets, TLC

VARIABLES
    \* ---- read_radolan_header (wradlib_io.py) ----
    fid,            \* the byte stream behind the file handle
    fpos,           \* file position of the handle (0-based)
    header,         \* the header string accumulated so far (sequence of bytes)
    hpc,            \* "reading" | "returned" | "raised"
    eofReads,       \* number of fid.read(1) calls that returned b'' (end of stream)
    \* ---- decode_radolan_runlength_line (wradlib_io.py) ----
    rline,          \* the encoded line handed to the decoder
    rncol,          \* attrs['ncol']
    rres,           \* result of the call (None before the call)
    rpc,            \* "call" | "done"
    \* ---- read_RADOLAN_composite, 16-bit branch (wradlib_io.py) ----
    producttype,    \* attrs['producttype']
    precision,      \* attrs['precision'], in thousandths
    indat,          \* the payload as little-endian 16-bit words
    arr16,          \* arr: the decoded cells, in thousandths of the unit
    attrs16,        \* attrs['secondary'], attrs['cluttermask'] (0-based positions)
    dpc,            \* "call" | "done"
    \* ---- calc_R_factor (erosivity.py) ----
    column,         \* the precipitation series, in tenths of a millimetre, or NaN
    freq_min,       \* frequency of the series in minutes
    max_nan_days,   \* maximum number of days without values
    cur,            \* i: the index cursor (0-based)
    R,              \* the R factor accumulated so far (RUnit), or NaN
    n_rains,        \* number of erosive rains so far, or NaN
    start_time,     \* index of the first interval of the open rain event
    rain_pause,     \* number of intervals without rain behind the cursor
    events,         \* history: the rain events evaluated so far
    rfpc,           \* "check" | "outer" | "inner" | "done"
    \* ---- Load (erosivity.py) and load_months_from_hdf5 (core.py) ----
    HDF5_file,      \* the archive: <<year, month>> -> partition, for the keys present
    year,           \* the requested year
    month,          \* the requested list of months
    load_freq,      \* freq_min of the call
    loaded,         \* the outcome of the call (None before it)
    lpc,            \* "call" | "done"
    \* ---- radolan_binaries_to_dataframe (raw.py) ----
    files,          \* the filtered directory listing, in listing order
    idArr,          \* the Cell ID Array of the call (None: the whole grid)
    pdFreqSetterValidates,  \* does this pandas check "df.index.freq = ..."?
    gridSize,       \* metadata['nrow'] * metadata['ncol'] of the pre-read
    ind,            \* the list of row timestamps
    dataArr,        \* the rows, one per file
    skipped_files,
    error_messages,
    fi,             \* the loop variable i
    dfOut,          \* the returned frame: rows [t, row]
    written,        \* content of the skipped_files text file (None: no file)
    iexc,           \* the exception the call ended with
    ipc,            \* "meta" | "loop" | "returned" | "raised"
    \* ---- read_RADOLAN_composite (wradlib_io.py) ----
    cheader,        \* what the header of the file says
    cpayload,       \* the bytes of the file behind the ETX byte
    cattrs,         \* attrs: the parsed metadata
    cindat,         \* indat: the payload read
    cresult,        \* the returned grid or the exception raised
    cpc,            \* "header" | "read" | "decode" | "returned" | "raised"
    \* ---- parse_DWD_quant_composite_header, INT token (wradlib_io.py) ----
    int_token,      \* header[v[0]:v[1]] of the INT token
    int_out,        \* what the block leaves in out, or the exception
    int_pc,         \* "call" | "done"
    \* ---- find_heavy_rainfalls, count_heavy_rainfall_intervals (heavyrain.py) ----
    hmodule,        \* the module file that runs
    hentry,         \* the function called
    pdEmptySumIsNaN, \* is the sum of an empty resampling period NaN in this pandas?
    HDFFile,        \* the archive: <<year, month>> -> partition
    season,
    year_start,
    year_end,
    thresholdValue, \* in tenths of a millimetre
    minArea,
    hmonths,        \* the local variable months (None: not assigned)
    hfreq,          \* the local variable freq (None: not assigned)
    heavy_rains,    \* the local variable heavy_rains (None: not assigned)
    hyi,            \* position of the loop over years (1-based)
    hmi,            \* position of the loop over months (1-based)
    hloads,         \* history: the partitions loaded so far
    hresult,        \* the returned table or the exception raised
    fhpc,           \* "freq" | "season" | "loop" | "resample" | "done"
    \* load_months_from_hdf5
    lm_file,        \* the archive: <<year, month>> -> table
    lm_year,        \* argument year
    lm_months,      \* argument months
    lm_out,         \* the returned table or the exception raised
    lm_pc,          \* "call" | "done"
    \* annual_R_factor
    ar_truediv,     \* does / on two integers divide truly (Python 3) or floor (Python 2)
    ar_file,        \* the archive: <<year, month>> -> column
    ar_year_start,  \* argument year_start
    ar_year_end,    \* argument year_end
    ar_max_nan_days, \* argument max_nan_days
    ar_twelfths,    \* the local max_nan_days after line 680, in twelfths of a day
    ar_freq_min,    \* the local freq_min
    ar_years,       \* the local years
    ar_yi,          \* position of the loop over years (1-based)
    ar_mi,          \* position of the loop over months (1-based)
    Ryear,          \* the local Ryear
    Nyear,          \* the local Nyear
    RannualDF,      \* the rows of RannualDF written so far
    NannualDF,      \* the rows of NannualDF written so far
    ar_pc,          \* "start" | "month" | "done"
    \* load_years_and_resample, its wrappers, hdf5_to_hydrologicalSeasons
    ly_entry,       \* the function called
    ly_freq,        \* argument freq
    ly_file,        \* the archive: <<year, month>> -> table
    ly_year_start,  \* argument year_start
    ly_year_end,    \* argument year_end
    ly_frequency,   \* the local frequency (None: not assigned)
    ly_years,       \* the local years
    ly_yi,          \* position of the loop over years (1-based)
    ly_mi,          \* position of the loop over the months 2..12
    ly_month,       \* the local month (0: not assigned)
    ly_df,          \* the local df: the months of the year so far
    ly_dfY,         \* the local dfY
    ly_ret,         \* what load_years_and_resample returned
    ly_out,         \* what the called function returned, or the exception raised
    ly_pc,          \* "start" | "january" | "months" | "returned" | "done"
    \* radolan_binaries_to_hdf5
    h5_store,       \* the HDF5 file: <<year, month>> -> table
    h5_log,         \* history: the folder and its content of every call so far
    h5_exc,         \* the exception the last call ended with (None: it returned)
    \* radolan_binaries_to_hdf5 followed by load_month
    rt_folder,      \* the month folder: the parts of its path, its year and month
    rt_content,     \* what radolan_binaries_to_dataframe makes of its files
    rt_prior,       \* does the file hold 2008/5 before the import
    rt_store,       \* the HDF5 file: <<year, month>> -> table
    rt_year,        \* argument year of load_month
    rt_month,       \* argument month of load_month
    rt_exc,         \* the exception the import ended with (None: it returned)
    rt_out,         \* what load_month returned, or the exception raised
    rt_pc,          \* "import" | "load" | "done"
    \* process_radolan_data
    pr_tree,        \* inFolder: year folder -> entry -> "ok" | "raise" | "file"
    pr_yi,          \* position in yearFolders
    pr_mi,          \* position in monthFolders of the year
    pr_failed,      \* the local list failed of _process_year
    pr_store,       \* the month folders written to the HDF5 file
    pr_stdout,      \* the lines printed
    pr_textfile,    \* the text file of failed directories (None: no such file)
    pr_ret,         \* what process_radolan_data returned
    pr_pc           \* "year" | "month" | "done"

hdrVars == <<fid, fpos, header, hpc, eofReads>>
rleVars == <<rline, rncol, rres, rpc>>
decVars == <<producttype, precision, indat, arr16, attrs16, dpc>>
rfVars == <<column, freq_min, max_nan_days, cur, R, n_rains, start_time,
            rain_pause, events, rfpc>>
ldVars == <<HDF5_file, year, month, load_freq, loaded, lpc>>
impVars == <<files, idArr, pdFreqSetterValidates, gridSize, ind, dataArr,
             skipped_files, error_messages, fi, dfOut, written, iexc, ipc>>
cmpVars == <<cheader, cpayload, cattrs, cindat, cresult, cpc>>
pintVars == <<int_token, int_out, int_pc>>
fhrVars == <<hmodule, hentry, pdEmptySumIsNaN, HDFFile, season, year_start, year_end,
             thresholdValue, minArea, hmonths, hfreq, heavy_rains, hyi, hmi, hloads,
             hresult, fhpc>>
lmVars == <<lm_file, lm_year, lm_months, lm_out, lm_pc>>
arVars == <<ar_truediv, ar_file, ar_year_start, ar_year_end, ar_max_nan_days, ar_twelfths,
           ar_freq_min, ar_years, ar_yi, ar_mi, Ryear, Nyear, RannualDF, NannualDF, ar_pc>>
lyVars == <<ly_entry, ly_freq, ly_file, ly_year_start, ly_year_end, ly_frequency, ly_years,
           ly_yi, ly_mi, ly_month, ly_df, ly_dfY, ly_ret, ly_out, ly_pc>>
h5Vars == <<h5_store, h5_log, h5_exc>>
rtVars == <<rt_folder, rt_content, rt_prior, rt_store, rt_year, rt_month, rt_exc, rt_out, rt_pc>>
prVars == <<pr_tree, pr_yi, pr_mi, pr_failed, pr_store, pr_stdout, pr_textfile, pr_ret, pr_pc>>
vars == <<hdrVars, rleVars, decVars, rfVars, ldVars, impVars, cmpVars, pintVars, fhrVars, lmVars, arVars, lyVars, h5Vars, rtVars, prVars>>

None == [kind |-> "None"]

(***************************************************************************)
(* Generic helpers                                                         *)
(***************************************************************************)
\* All sequences over S of length 0..n
SeqsUpTo(S, n) == UNION { [1..k -> S] : k \in 0..n }

\* n copies of v (np.ones(n) * v)
Ones(n, v) == [k \in 1..n |-> v]

\* Python slice s[a:b] for 0 <= a, b (bounds clipped to the length)
PySlice(s, a, b) ==
    LET lo == IF a > Len(s) THEN Len(s) ELSE a
        hi == IF b > Len(s) THEN Len(s) ELSE b
    IN  IF hi <= lo THEN <<>> ELSE [k \in 1..(hi - lo) |-> s[lo + k]]

(***************************************************************************)
(* read_radolan_header: read the stream byte by byte up to the ETX byte    *)
(***************************************************************************)
ETX == 3

\* bound: length of the modelled byte streams
MaxStreamLen == 4
\* bound: how many reads at end of stream the model follows
MaxEofReads == 2

\* Bytes the modelled streams are made of: ETX, "R", "W" and a non-ASCII byte
HdrBytes == {ETX, 82, 87, 200}

HasEtx(stream) == \E k \in 1..Len(stream) : stream[k] = ETX

\* fid.read(1): the next byte, or the empty string at end of stream
Read1(stream, pos) == IF pos < Len(stream) THEN <<stream[pos + 1]>> ELSE <<>>

\* mychar.decode(): a byte above 127 is no ASCII character (UnicodeDecodeError)
Decodable(mychar) == \A k \in 1..Len(mychar) : mychar[k] < 128

HdrInit ==
    /\ fid \in SeqsUpTo(HdrBytes, MaxStreamLen)
    /\ fpos = 0              \* fid.seek(0, 0)
    /\ header = <<>>
    /\ hpc = "reading"
    /\ eofReads = 0

HdrIdle ==
    /\ fid = <<>>
    /\ fpos = 0
    /\ header = <<>>
    /\ hpc = "idle"
    /\ eofReads = 0

\* One iteration of the while-True loop that gets a byte from the stream.
HdrReadByte ==
    /\ hpc = "reading"
    /\ fpos < Len(fid)
    /\ LET mychar == Read1(fid, fpos)
       IN  /\ fpos' = fpos + 1
           /\ IF mychar = <<ETX>>
              THEN /\ hpc' = "returned"            \* break; return header
                   /\ header' = header
              ELSE IF Decodable(mychar)
              THEN /\ hpc' = "reading"
                   /\ header' = header \o mychar
              ELSE /\ hpc' = "raised"              \* UnicodeDecodeError
                   /\ header' = header
    /\ UNCHANGED <<fid, eofReads>>

\* One iteration of the loop at end of stream: read(1) returns b'', which is
\* not ETX; b''.decode() is '' and the loop goes on.
HdrReadAtEof ==
    /\ hpc = "reading"
    /\ fpos >= Len(fid)
    /\ eofReads < MaxEofReads
    /\ LET mychar == Read1(fid, fpos)
       IN  /\ mychar # <<ETX>>
           /\ header' = header \o mychar
    /\ eofReads' = eofReads + 1
    /\ UNCHANGED <<fid, fpos, hpc>>


(***************************************************************************)
(* decode_radolan_runlength_line: one run-length coded line -> one row     *)
(***************************************************************************)
LF == 10
\* missing=-9999 of read_RADOLAN_composite, stored as attrs['nodataflag']
NODATA == -9999

\* bound: number of bytes between the line number and the line end
MaxRleBody == 4

\* Bytes of the modelled lines. As an offset byte b means offset b - 16, as
\* a run byte it means (b \div 16) cells of value (b % 16); 255 is the
\* offset escape. All are >= 16, so no offset is negative.
RleBytes == {16, 17, 18, 33, 255}

\* Lines as read_radolan_runlength_line hands them over: fid.readline()
\* ends a line at the first LF, so LF can only be the last byte; the last
\* line of a buffer may lack it, and may be empty.
RleLines ==
    {<<>>} \cup
    { <<1>> \o body \o tail : body \in SeqsUpTo(RleBytes, MaxRleBody),
                               tail \in {<<>>, <<LF>>} }

\* attrs['ncol'] of the modelled grids: a narrow one and one wider than the
\* escape offset 239
RleNcols == {3, 245}

Raise(exc) == [kind |-> "raise", exc |-> exc]
Row(r) == [kind |-> "row", row |-> r]

\* while byte == 255: lo += 1; byte = line[lo]; offset += byte - 16
\* (lo is the Python index of the byte last read)
RECURSIVE OffsetScan(_, _, _)
OffsetScan(line, lo, offset) ==
    IF line[lo + 1] # 255 THEN [ok |-> TRUE, lo |-> lo, offset |-> offset]
    ELSE IF lo + 1 >= Len(line) THEN [ok |-> FALSE, lo |-> lo, offset |-> offset]
    ELSE OffsetScan(line, lo + 1, offset + (line[lo + 2] - 16))

\* The loop body binds the local variable arr in its first pass; it does
\* not run when dline is empty or starts with LF, and arr stays unbound.
ArrBound(dline) == Len(dline) > 0 /\ dline[1] # LF

\* for lo, byte in enumerate(dline): ... ; k is the Python index into dline
RECURSIVE RunScan(_, _, _, _)
RunScan(dline, k, offset, arr) ==
    IF k >= Len(dline) THEN arr
    ELSE IF dline[k + 1] = LF THEN arr                      \* break
    ELSE LET byte == dline[k + 1]
             width == byte \div 16                          \* (byte & 0xF0) >> 4
             val == byte % 16                               \* byte & 0x0F
             arr0 == IF k = 0 THEN Ones(offset, NODATA) ELSE arr
         IN  RunScan(dline, k + 1, offset, arr0 \o Ones(width, val))

\* arr = dline[:trailing] for trailing < 0
RleTruncate(dline, arr, trailing) == PySlice(dline, 0, Len(dline) + trailing)

decode_radolan_runlength_line(line, ncol) ==
    IF Len(line) < 2 THEN Raise("IndexError")               \* byte = line[lo]
    ELSE IF line[2] = LF THEN Row(Ones(ncol, NODATA))       \* line empty
    ELSE
    LET scan == OffsetScan(line, 1, line[2] - 16)
    IN  IF ~scan.ok THEN Raise("IndexError")                \* line[lo] past the end
        ELSE
        LET dline == PySlice(line, scan.lo + 1, Len(line))
        IN  IF ArrBound(dline) /\ scan.offset < 0
            THEN Raise("ValueError")                        \* np.ones(negative)
            ELSE IF ~ArrBound(dline)
            THEN Raise("UnboundLocalError")                 \* len(arr), arr unbound
            ELSE
            LET arr == RunScan(dline, 0, scan.offset, <<>>)
            IN
                LET trailing == ncol - Len(arr)
                IN  IF trailing > 0 THEN Row(arr \o Ones(trailing, NODATA))
                    ELSE IF trailing < 0 THEN Row(RleTruncate(dline, arr, trailing))
                    ELSE Row(arr)

RleInit ==
    /\ rline \in RleLines
    /\ rncol \in RleNcols
    /\ rres = None
    /\ rpc = "call"

RleIdle ==
    /\ rline = <<>>
    /\ rncol = 0
    /\ rres = None
    /\ rpc = "idle"

RleDecode ==
    /\ rpc = "call"
    /\ rres' = decode_radolan_runlength_line(rline, rncol)
    /\ rpc' = "done"
    /\ UNCHANGED <<rline, rncol>>


(***************************************************************************)
(* read_RADOLAN_composite, default branch: 16-bit products                 *)
(***************************************************************************)
\* mask = 0xFFF
mask == 4095
\* width of np.uint16
Uint16 == 65536

\* bound: number of cells of the modelled payloads
MaxCells == 2

\* Fixed point: decoded values and precision factors are held in thousandths.
Milli == 1000

\* Words of the modelled payloads: every combination of the flag bits 12..15
\* over the magnitudes 0, 5 and 4095.
Words16 == { m + 4096 * f : m \in {0, 5, mask}, f \in 0..15 }

\* precision factors 1.0 (PR E-00), 0.1 (PR E-01), 0.01 (PR E-02), in thousandths
Precisions == {1000, 100, 10}

Products16 == {"RD", "RW", "YW"}

\* arr & (1 << b) is non-zero
Bit(w, b) == (w \div (2 ^ b)) % 2 = 1

\* np.where(cond)[0]: the 0-based positions where the flag bit is set
WherePos(words, b) == { k - 1 : k \in { j \in 1..Len(words) : Bit(words[j], b) } }

\* -arr[negative] on an np.uint16 array
NegUint16(v) == (Uint16 - v) % Uint16

\* lines 482-498: words -> values
DecodeWords16(ptype, words, prec) ==
    LET nodata == WherePos(words, 13)
        negative == WherePos(words, 14)
        masked == [k \in 1..Len(words) |-> words[k] % (mask + 1)]       \* arr &= mask
        signed == [k \in 1..Len(words) |->
                     IF ptype = "RD" /\ (k - 1) \in negative
                     THEN NegUint16(masked[k]) ELSE masked[k]]
        scaled == [k \in 1..Len(words) |-> signed[k] * prec]            \* arr * precision
    IN  [k \in 1..Len(words) |->
           IF (k - 1) \in nodata THEN NODATA * Milli ELSE scaled[k]]    \* arr[nodata] = NODATA

DecInit ==
    /\ producttype \in Products16
    /\ precision \in Precisions
    /\ indat \in UNION { [1..n -> Words16] : n \in 1..MaxCells }
    /\ arr16 = <<>>
    /\ attrs16 = None
    /\ dpc = "call"

DecIdle ==
    /\ producttype = ""
    /\ precision = 0
    /\ indat = <<>>
    /\ arr16 = <<>>
    /\ attrs16 = None
    /\ dpc = "idle"

DecDecode ==
    /\ dpc = "call"
    /\ arr16' = DecodeWords16(producttype, indat, precision)
    /\ attrs16' = [kind |-> "attrs",
                   secondary |-> WherePos(indat, 12),
                   cluttermask |-> WherePos(indat, 15)]
    /\ dpc' = "done"
    /\ UNCHANGED <<producttype, precision, indat>>


(***************************************************************************)
(* calc_R_factor: rain event segmentation and R factor of one series       *)
(*                                                                         *)
(* Precipitation is held in tenths of a millimetre (12 mm = 120), so the   *)
(* thresholds 10, 40, 76.2 and 0.05 of the source are 100, 400, 762 and    *)
(* 0.5. NaN is a value of its own; arithmetic and comparisons treat it as  *)
(* IEEE floats do (NaN compares false, np.nansum/np.nanmax skip it).       *)
(***************************************************************************)
NaN == -1
IsNaN(x) == x = NaN

\* x > y and x >= y and x < y on floats: false when either side is NaN
FGt(x, y) == ~IsNaN(x) /\ ~IsNaN(y) /\ x > y
FGe(x, y) == ~IsNaN(x) /\ ~IsNaN(y) /\ x >= y
FLt(x, y) == ~IsNaN(x) /\ ~IsNaN(y) /\ x < y
\* x + y and x * y on floats: NaN when either side is NaN
FAdd(x, y) == IF IsNaN(x) \/ IsNaN(y) THEN NaN ELSE x + y
FMul(x, y) == IF IsNaN(x) \/ IsNaN(y) THEN NaN ELSE x * y

\* Python slice s[a:b] with negative indices counted from the end
PyIndex(s, a) == IF a >= 0 THEN a ELSE IF Len(s) + a < 0 THEN 0 ELSE Len(s) + a
PySliceN(s, a, b) == PySlice(s, PyIndex(s, a), PyIndex(s, b))

\* np.nansum
RECURSIVE nansum(_)
nansum(s) ==
    IF s = <<>> THEN 0
    ELSE (IF IsNaN(Head(s)) THEN 0 ELSE Head(s)) + nansum(Tail(s))

\* np.nanmax (NaN for a slice without a number)
nanmax(s) ==
    LET numbers == { s[k] : k \in {j \in 1..Len(s) : ~IsNaN(s[j])} }
    IN  IF numbers = {} THEN NaN
        ELSE CHOOSE x \in numbers : \A z \in numbers : x >= z

\* np.isnan(column).sum()
NanCount(s) == Cardinality({k \in 1..Len(s) : IsNaN(s[k])})

\* six_hours = 6 * 60/freq_min, window = 30/freq_min (integer division)
SixHours(freq) == (6 * 60) \div freq
Window(freq) == 30 \div freq
\* max_nan_intervals = max_nan_days * (60/freq_min) * 24
MaxNanIntervals(days, freq) == days * (60 \div freq) * 24

TooManyNaN_AtThreshold(col, freq, days) == NanCount(col) >= MaxNanIntervals(days, freq)

\* line 317: the series has too many NaN intervals
TooManyNaN(col, freq, days) == NanCount(col) > MaxNanIntervals(days, freq)

\* line 323 / 338: column[i] > 0.0
Rainy(col, idx) == FGt(col[idx + 1], 0)

InnerContinues_Strict(pause, freq) == pause < SixHours(freq)

\* line 331: the inner loop goes on
InnerContinues(pause, freq) == pause <= SixHours(freq)

EventWindow_AlwaysCut(col, start, stop, freq) ==
    [lo |-> start, hi |-> stop - SixHours(freq)]

\* lines 351-355: the window N of the event as Python slice bounds [lo, hi)
EventWindow(col, start, stop, freq) ==
    LET end_time == stop - SixHours(freq)
    IN  IF nansum(PySliceN(col, end_time, stop)) = 0
        THEN [lo |-> start, hi |-> end_time]
        ELSE [lo |-> start, hi |-> stop]

\* lines 373-377: the largest sum of `window` consecutive intervals
RECURSIVE RollingMax(_, _, _, _)
RollingMax(N, window, k, best) ==
    IF k > Len(N) - window THEN best
    ELSE LET N30 == nansum(PySlice(N, k, k + window))
         IN  RollingMax(N, window, k + 1, IF N30 > best THEN N30 ELSE best)

\* lines 363-378: I30 of the event, computed inline
InlineI30(N, freq) ==
    IF freq = 60 THEN nanmax(N)
    ELSE LET window == Window(freq)
             peak == IF Len(N) <= window THEN nansum(N)
                     ELSE RollingMax(N, window, 1, nansum(PySlice(N, 0, window)))
         IN  FMul(peak, 2)

Erosive_NoOutlierCut(N, I30) == (FGt(I30, 100) \/ nansum(N) >= 100) /\ ~IsNaN(I30)

calc_I30_DoubledHourly(NArr, freq) ==
    LET window == Window(freq)
        peak == IF freq = 60 THEN nanmax(NArr)
                ELSE IF Len(NArr) <= window THEN nansum(NArr)
                ELSE RollingMax(NArr, window, 1, nansum(PySlice(NArr, 0, window)))
    IN  FMul(peak, 2)

\* calc_I30(NArr, freq_min), lines 38-72
calc_I30(NArr, freq) ==
    IF freq = 60 THEN nanmax(NArr)
    ELSE LET window == Window(freq)
             peak == IF Len(NArr) <= window THEN nansum(NArr)
                     ELSE RollingMax(NArr, window, 1, nansum(PySlice(NArr, 0, window)))
         IN  FMul(peak, 2)

\* line 383: the rain is erosive
Erosive(N, I30) == (FGt(I30, 100) \/ nansum(N) >= 100) /\ ~FGt(I30, 400) /\ ~IsNaN(I30)

\* math.log10 of an intensity given in tenths of mm/h, in thousandths:
\* exact at 1, 2, ..., 10 times a power of ten, linear in between.
Log10Table == <<0, 301, 477, 602, 699, 778, 845, 903, 954, 1000>>
Log10Milli(Id) ==
    LET p == IF Id < 10 THEN 1 ELSE IF Id < 100 THEN 10 ELSE IF Id < 1000 THEN 100 ELSE 1000
        e == IF Id < 10 THEN -1 ELSE IF Id < 100 THEN 0 ELSE IF Id < 1000 THEN 1 ELSE 2
        d == Id \div p                      \* leading digit 1..9
        r == Id - d * p                     \* rest, 0 .. p-1
        la == Log10Table[d]
        lb == Log10Table[d + 1]
    IN  1000 * e + la + ((lb - la) * r) \div p

\* lines 388-393: what interval value Nj adds to the energy E, in EUnit
\* (1e-6 kJ/m^2): coefficients 11.89, 8.73 and 28.33 in hundredths.
EnergyTerm(Nj, freq) ==
    LET I == FMul(Nj, 60 \div freq)
    IN  IF FGt(FMul(I, 10), 5) /\ FLt(I, 762)
        THEN (1189 + (873 * Log10Milli(I)) \div 1000) * Nj
        ELSE IF FGe(Nj, 762)
        THEN 2833 * Nj
        ELSE 0

\* lines 386-393: E of the event
RECURSIVE EventEnergy(_, _)
EventEnergy(N, freq) ==
    IF N = <<>> THEN 0 ELSE EnergyTerm(Head(N), freq) + EventEnergy(Tail(N), freq)

\* line 396: E * I30, in RUnit (1e-5 kJ/m^2 * mm/h)
EI30(E, I30) == FMul(E \div 100, I30)

\* bound: length of the modelled hourly series
MaxLen == 9
\* bound: number of intervals of a modelled hourly series that are not 0
MaxWet == 2

\* Values of the modelled hourly series: 3 mm, 12 mm, 50 mm and NaN
WetValues == {NaN, 30, 120, 500}

\* The hourly series: length up to MaxLen, at most MaxWet intervals not 0
HourlySeries ==
    UNION { UNION { { [k \in 1..n |-> IF k \in P THEN f[k] ELSE 0] :
                        f \in [P -> WetValues] } :
                    P \in {Q \in SUBSET (1..n) : Cardinality(Q) <= MaxWet} } :
            n \in 0..MaxLen }

\* 5-minute series: a burst of 12 mm in 20 minutes followed by 7 dry hours,
\* and two such bursts 8 dry hours apart
Burst == <<30, 30, 30, 30>>
Burst7h == Burst \o Ones(7 * 12, 0)
TwoBursts8h == Burst \o Ones(8 * 12, 0) \o Burst

\* Hourly series with three rains: two rains two hours apart and a third
\* after 7 dry hours; three rains, each 6 dry hours after the one before
ThreeRains == { <<120, 0, 120>> \o Ones(7, 0) \o <<120>>,
                <<30>> \o Ones(6, 0) \o <<30>> \o Ones(6, 0) \o <<30>> }

\* 5-minute series with an interval of 7 mm (84 mm/h): alone, and between
\* two intervals of 3 mm
Cloudbursts == { <<70, 0, 0>>, <<0, 30, 70, 30, 0>> }

\* Series with a rain longer than 30 minutes whose wettest 30 minutes are
\* not the first ones: at 5 minutes and at 15 minutes
Shower5 == <<10, 0, 30, 30, 0, 0, 0, 10, 40, 0>>
Shower15 == <<0, 20, 50, 0, 60, 10>>

\* bound: length of the hourly series on which the end of the scan is checked
MaxScanLen == 5

RfInit ==
    /\ \/ freq_min = 60 /\ column \in HourlySeries \cup ThreeRains
       \/ freq_min = 5 /\ column \in {Burst7h, TwoBursts8h, Shower5} \cup Cloudbursts
       \/ freq_min = 15 /\ column = Shower15
    /\ max_nan_days \in {0, 1}
    /\ cur = 0
    /\ R = 0
    /\ n_rains = 0
    /\ start_time = 0
    /\ rain_pause = 0
    /\ events = <<>>
    /\ rfpc = "check"

\* The calls on which the end of the scan is checked: short series at
\* frequencies of 5, 15 and 60 minutes and at frequencies above one hour,
\* where six_hours is 3 (120 minutes) and 0 (400 minutes)
ShortSeries == { c \in HourlySeries : Len(c) <= MaxScanLen }
RfInitScan ==
    /\ \/ freq_min = 60 /\ column \in ShortSeries \cup ThreeRains
       \/ freq_min = 5 /\ column \in Cloudbursts
       \/ freq_min = 15 /\ column = Shower15
       \/ freq_min \in {120, 400} /\ column \in ShortSeries
    /\ max_nan_days \in {0, 1}
    /\ cur = 0
    /\ R = 0
    /\ n_rains = 0
    /\ start_time = 0
    /\ rain_pause = 0
    /\ events = <<>>
    /\ rfpc = "check"

RfIdle ==
    /\ column = <<>>
    /\ freq_min = 0
    /\ max_nan_days = 0
    /\ cur = 0
    /\ R = 0
    /\ n_rains = 0
    /\ start_time = 0
    /\ rain_pause = 0
    /\ events = <<>>
    /\ rfpc = "idle"

\* lines 317-320: too many NaN intervals -> (NaN, NaN), nothing is computed
RfCheckNaN ==
    /\ rfpc = "check"
    /\ IF TooManyNaN(column, freq_min, max_nan_days)
       THEN R' = NaN /\ n_rains' = NaN /\ rfpc' = "done"
       ELSE UNCHANGED <<R, n_rains>> /\ rfpc' = "outer"
    /\ UNCHANGED <<column, freq_min, max_nan_days, cur, start_time, rain_pause, events>>

\* lines 322-323, 400: outer loop on an interval without rain
RfOuterDry ==
    /\ rfpc = "outer"
    /\ cur < Len(column)
    /\ ~Rainy(column, cur)
    /\ cur' = cur + 1
    /\ UNCHANGED <<column, freq_min, max_nan_days, R, n_rains, start_time,
                   rain_pause, events, rfpc>>

\* lines 322-327: outer loop on an interval with rain: an event begins
RfOuterRain ==
    /\ rfpc = "outer"
    /\ cur < Len(column)
    /\ Rainy(column, cur)
    /\ start_time' = cur
    /\ rain_pause' = 0
    /\ rfpc' = "inner"
    /\ UNCHANGED <<column, freq_min, max_nan_days, cur, R, n_rains, events>>

\* line 322 false, line 402: return R, n_rains
RfReturn ==
    /\ rfpc = "outer"
    /\ cur >= Len(column)
    /\ rfpc' = "done"
    /\ UNCHANGED <<column, freq_min, max_nan_days, cur, R, n_rains, start_time,
                   rain_pause, events>>

NextPause_EndIsDry(col, i, pause, freq) ==
    IF i < Len(col) /\ Rainy(col, i) THEN 0 ELSE pause + 1

\* lines 335-342: rain_pause after the cursor has moved to i
NextPause(col, i, pause, freq) ==
    IF i = Len(col) THEN SixHours(freq) + 1
    ELSE IF Rainy(col, i) THEN 0
    ELSE pause + 1

\* lines 331-342: one pass of the inner loop; column[i] for an i behind
\* len(column) is an IndexError
RfInnerStep ==
    /\ rfpc = "inner"
    /\ InnerContinues(rain_pause, freq_min)
    /\ cur' = cur + 1
    /\ IF cur' > Len(column)
       THEN rfpc' = "raised" /\ UNCHANGED rain_pause
       ELSE /\ rain_pause' = NextPause(column, cur', rain_pause, freq_min)
            /\ UNCHANGED rfpc
    /\ UNCHANGED <<column, freq_min, max_nan_days, R, n_rains, start_time, events>>

\* lines 346-400: the inner loop has ended: evaluate the event, go on behind it
RfEventEnd ==
    /\ rfpc = "inner"
    /\ ~InnerContinues(rain_pause, freq_min)
    /\ \E w \in {EventWindow(column, start_time, cur, freq_min)} :
       \E N \in {PySliceN(column, w.lo, w.hi)} :
       \E I30 \in {IF Len(N) > 0 THEN InlineI30(N, freq_min) ELSE 0} :
       \E erosive \in {Len(N) > 0 /\ Erosive(N, I30)} :
       \E E \in {IF erosive THEN EventEnergy(N, freq_min) ELSE 0} :
           /\ n_rains' = IF erosive THEN n_rains + 1 ELSE n_rains
           /\ R' = IF erosive THEN FAdd(R, EI30(E, I30)) ELSE R
           /\ events' = Append(events,
                  [start |-> start_time, stop |-> cur,
                   lo |-> PyIndex(column, w.lo), hi |-> PyIndex(column, w.hi),
                   I30 |-> I30, E |-> E, erosive |-> erosive])
    /\ cur' = cur + 1
    /\ rfpc' = "outer"
    /\ UNCHANGED <<column, freq_min, max_nan_days, start_time, rain_pause>>

(***************************************************************************)
(* load_months_from_hdf5 and the boundary-carry loader Load                *)
(*                                                                         *)
(* A partition is a table of one column: a sequence of rows [t, v], t the  *)
(* number of the interval on a time axis on which every month has PartLen  *)
(* intervals, v the value in tenths of a millimetre or NaN.                *)
(***************************************************************************)
\* bound: number of intervals of a modelled month
PartLen == 13

\* First interval of month m of year y on the time axis
MonthStart(y, m) == (y * 12 + (m - 1)) * PartLen
\* The month an interval belongs to, as <<year, month>>
MonthOf(t) == <<(t \div PartLen) \div 12, ((t \div PartLen) % 12) + 1>>

\* The tables a modelled partition holds: no rain, rain in the first
\* interval, in the last one, in both, in the middle one, NaN in the first
Patterns == {"dry", "lead", "trail", "both", "mid", "leadnan"}
PatternValue(pat, k) ==
    CASE pat = "lead" /\ k = 0 -> 50
      [] pat = "trail" /\ k = PartLen - 1 -> 50
      [] pat = "both" /\ k \in {0, PartLen - 1} -> 50
      [] pat = "mid" /\ k = PartLen \div 2 -> 50
      [] pat = "leadnan" /\ k = 0 -> NaN
      [] OTHER -> 0
Partition(y, m, pat) ==
    [k \in 1..PartLen |-> [t |-> MonthStart(y, m) + k - 1, v |-> PatternValue(pat, k - 1)]]

Values(df) == [k \in 1..Len(df) |-> df[k].v]

\* df.asfreq(fr): the regular index from the first to the last row; an
\* interval without a row gets NaN
AsFreq(df) ==
    IF df = <<>> THEN df
    ELSE LET t0 == df[1].t
             n == df[Len(df)].t - t0 + 1
         IN  IF n <= 0 THEN <<>>
             ELSE [k \in 1..n |->
                     IF \E j \in 1..Len(df) : df[j].t = t0 + k - 1
                     THEN df[CHOOSE j \in 1..Len(df) : df[j].t = t0 + k - 1]
                     ELSE [t |-> t0 + k - 1, v |-> NaN]]

\* f[dataset] for dataset "%4i/%i" % (year, month): KeyError for a key the
\* archive does not hold
HasKey(f, y, m) == <<y, m>> \in DOMAIN f

\* core.load_months_from_hdf5(HDFFile, year, months)
RECURSIVE AppendMonths(_, _, _, _, _)
AppendMonths(f, y, months, k, df) ==
    IF k > Len(months) THEN [ok |-> TRUE, df |-> df]
    ELSE IF ~HasKey(f, y, months[k]) THEN [ok |-> FALSE, df |-> <<>>]
    ELSE AppendMonths(f, y, months, k + 1, AsFreq(df \o f[<<y, months[k]>>]))

load_months_from_hdf5(f, y, months) ==
    IF ~HasKey(f, y, months[1]) THEN [ok |-> FALSE, df |-> <<>>]
    ELSE AppendMonths(f, y, months, 2, f[<<y, months[1]>>])

\* np.nansum(df_month.values[0:six_hours]) > 0.0
LeadRain(df_month, freq) == nansum(PySliceN(Values(df_month), 0, SixHours(freq))) > 0
\* np.nansum(df_month.values[(len(df_month)-six_hours):len(df_month)]) > 0.0
TrailRain(df_month, freq) ==
    nansum(PySliceN(Values(df_month), Len(df_month) - SixHours(freq), Len(df_month))) > 0

Returned(df) == [kind |-> "returned", df |-> df]

\* The body of the if/else cascade that all three branches share (lines
\* 113-138, 157-182, 199-224): prev and next are the keys of the month
\* before and the month after. The outcome is the frame, or a raise.
Cascade(f, df_month, freq, prev, next) ==
    LET df_1 == load_months_from_hdf5(f, prev[1], <<prev[2]>>)
        df_2 == load_months_from_hdf5(f, next[1], <<next[2]>>)
    IN  IF LeadRain(df_month, freq)
        THEN IF ~df_1.ok THEN Raise("KeyError")
             ELSE IF TrailRain(df_month, freq)
             THEN IF ~df_2.ok THEN Raise("KeyError")
                  ELSE Returned(df_1.df \o df_month \o df_2.df)
             ELSE Returned(df_1.df \o df_month)
        ELSE IF TrailRain(df_month, freq)
             THEN IF ~df_2.ok THEN Raise("KeyError")
                  ELSE Returned(df_month \o df_2.df)
             ELSE Returned(df_month)

\* except-branch of the January case (lines 139-152)
JanuaryHandler(f, df_month, freq, next) ==
    LET df_2 == load_months_from_hdf5(f, next[1], <<next[2]>>)
    IN  IF TrailRain(df_month, freq)
        THEN IF ~df_2.ok THEN Raise("KeyError") ELSE Returned(df_month \o df_2.df)
        ELSE Returned(df_month)

\* except-branch of the December case (lines 183-194)
DecemberHandler(f, df_month, freq, prev) ==
    LET df_1 == load_months_from_hdf5(f, prev[1], <<prev[2]>>)
    IN  IF TrailRain(df_month, freq)
        THEN IF ~df_1.ok THEN Raise("KeyError") ELSE Returned(df_1.df \o df_month)
        ELSE Returned(df_month)

\* lines 104-224: the frame df of Load, or the exception it ends with
LoadFrame(f, y, months, freq) ==
    LET req == load_months_from_hdf5(f, y, months)
        first == months[1]
        last == months[Len(months)]
    IN  IF ~req.ok THEN Raise("KeyError")
        ELSE IF first = 1
        THEN LET try == Cascade(f, req.df, freq, <<y - 1, 12>>, <<y, last + 1>>)
             IN  IF try.kind = "raise"
                 THEN JanuaryHandler(f, req.df, freq, <<y, last + 1>>)
                 ELSE try
        ELSE IF last = 12
        THEN LET try == Cascade(f, req.df, freq, <<y, first - 1>>, <<y + 1, 1>>)
             IN  IF try.kind = "raise"
                 THEN DecemberHandler(f, req.df, freq, <<y, first - 1>>)
                 ELSE try
        ELSE Cascade(f, req.df, freq, <<y, first - 1>>, <<y, last + 1>>)

\* len(DataFrame["<year>-<month>"]): the rows of one month (KeyError if none)
RowsOfMonth(df, y, m) == Cardinality({k \in 1..Len(df) : MonthOf(df[k].t) = <<y, m>>})

RECURSIVE SumRows(_, _, _, _)
SumRows(df, y, months, k) ==
    IF k > Len(months) THEN 0
    ELSE RowsOfMonth(df, y, months[k]) + SumRows(df, y, months, k + 1)

\* Load(HDF5_file, year, month, freq_min), lines 104-258
Load(f, y, months, freq) ==
    LET frame == LoadFrame(f, y, months, freq)
    IN  IF frame.kind = "raise" THEN frame
        ELSE LET df == frame.df
                 bef == IF months[1] = 1 THEN RowsOfMonth(df, y - 1, 12)
                        ELSE RowsOfMonth(df, y, months[1] - 1)
             IN  [kind |-> "returned",
                  df |-> df,
                  length_month_bef |-> IF bef = 0 THEN 0 ELSE bef - 1,
                  length_month |-> SumRows(df, y, months, 1)]

\* The requests of the model: single months, two months, the whole year
Requests == {<<1>>, <<6>>, <<12>>, <<1, 2>>, <<11, 12>>,
             <<1, 2, 3, 4, 5, 6, 7, 8, 9, 10, 11, 12>>}

\* Keys of the month before and the month after a request
PrevKey(y, months) == IF months[1] = 1 THEN <<y - 1, 12>> ELSE <<y, months[1] - 1>>
NextKey(y, months) ==
    IF months[Len(months)] = 12 THEN <<y + 1, 1>> ELSE <<y, months[Len(months)] + 1>>

\* An archive that holds the requested months (first one with table p1, last
\* one with p2, the others dry) and the adjacent months named in adj
ArchiveOf(y, months, p1, p2, adj) ==
    LET reqKeys == { <<y, months[k]>> : k \in 1..Len(months) }
    IN  [key \in reqKeys \cup adj |->
           IF key = <<y, months[1]>> THEN Partition(key[1], key[2], p1)
           ELSE IF key = <<y, months[Len(months)]>> THEN Partition(key[1], key[2], p2)
           ELSE IF key \in reqKeys THEN Partition(key[1], key[2], "dry")
           ELSE Partition(key[1], key[2], "mid")]

LdInit ==
    /\ year = 2010
    /\ month \in Requests
    /\ load_freq = 60
    /\ \E p1, p2 \in Patterns :
       \E adj \in SUBSET {PrevKey(year, month), NextKey(year, month)} :
          /\ (Len(month) = 1 => p1 = p2)
          /\ HDF5_file = ArchiveOf(year, month, p1, p2, adj)
    /\ loaded = None
    /\ lpc = "call"

LdIdle ==
    /\ HDF5_file = <<>>
    /\ year = 0
    /\ month = <<>>
    /\ load_freq = 0
    /\ loaded = None
    /\ lpc = "idle"

LdLoad ==
    /\ lpc = "call"
    /\ loaded' = Load(HDF5_file, year, month, load_freq)
    /\ lpc' = "done"
    /\ UNCHANGED <<HDF5_file, year, month, load_freq>>

(***************************************************************************)
(* radolan_binaries_to_dataframe                                           *)
(*                                                                         *)
(* Time is counted in steps of five minutes, so that minute = 5 * (t % 12).*)
(* A file is a record: name (the time of the YYMMDDHHMM token of the file  *)
(* name), datetime and producttype (what its header says), corrupt (does   *)
(* read_RADOLAN_composite raise on it) and nrow (rows of its grid; the     *)
(* modelled grids have one column).                                        *)
(***************************************************************************)
\* bounds: files of a folder, time slots their names are drawn from
MaxFiles == 3
MaxSlot == 4
\* bound: columns of the modelled grids
ncol1 == 1

Minute45(t) == t % 12 = 9
\* datetime_obj.replace(minute=45)
ReplaceMinute45(t) == t - (t % 12) + 9

\* The index step of a product: Hour() for RW, 5 * Minute() for RY, RZ, YW
FreqStep(ptype) ==
    CASE ptype \in {"RW"} -> 12
      [] ptype \in {"RY", "RZ", "YW"} -> 1
      [] OTHER -> 0

\* The three kinds of folders of the model: hourly sums named HH:50 whose
\* header says HH:50, early hourly sums whose header says HH:45, and
\* five-minute files (the first slot is HH:40)
FolderKinds == {"RW", "RW45", "RY"}
FileOf(kind, slot, corrupt, nrow) ==
    [name |-> IF kind = "RY" THEN 8 + slot ELSE 12 * slot + 10,
     datetime |-> CASE kind = "RY" -> 8 + slot
                    [] kind = "RW" -> 12 * slot + 10
                    [] kind = "RW45" -> 12 * slot + 9,
     producttype |-> IF kind = "RY" THEN "RY" ELSE "RW",
     corrupt |-> corrupt,
     nrow |-> nrow]

\* The listings of a folder kind: any order, names distinct
Listings(kind) ==
    { l \in SeqsUpTo({FileOf(kind, slot, c, nr) :
                        slot \in 0..(MaxSlot - 1), c \in BOOLEAN, nr \in {2, 3}} \
                     {FileOf(kind, slot, TRUE, 3) : slot \in 0..(MaxSlot - 1)},
                     MaxFiles) :
        \A a, b \in 1..Len(l) : a /= b => l[a].name /= l[b].name }

\* A numpy array of ids, and the id arrays given to the call
Array(ids) == [kind |-> "array", ids |-> ids]
IdArrays == {None} \cup {Array(ids) : ids \in {<<0, 1>>, <<1>>, <<-1>>, <<2>>, <<0, -3>>}}

\* The decoded grid of a file, first row in the south: the cell of the
\* last row is NoData, the others hold values that tell file and row
Grid(file) ==
    [r \in 1..file.nrow |->
        [c \in 1..ncol1 |-> IF r = file.nrow THEN NODATA ELSE 10 * file.name + r]]

\* data[::-1].reshape(gridSize,); data[data == nodataflag] = np.nan
FlatNorthFirst(file) ==
    [k \in 1..(file.nrow * ncol1) |->
        LET v == Grid(file)[file.nrow - ((k - 1) \div ncol1)][((k - 1) % ncol1) + 1]
        IN  IF v = NODATA THEN NaN ELSE v]

\* data[idArr]: an id outside [-n, n) is an IndexError, a negative id
\* inside it counts from the end
IdInRange(id, n) == id >= 0 - n /\ id < n
Clip(data, ids) ==
    IF \E k \in 1..Len(ids) : ~IdInRange(ids[k], Len(data))
    THEN Raise("IndexError")
    ELSE Row([k \in 1..Len(ids) |->
                IF ids[k] >= 0 THEN data[ids[k] + 1] ELSE data[Len(data) + ids[k] + 1]])

\* The try block of the loop (lines 291-306) for one file: the exception it
\* raises or the row, and whether ind.append (line 294) was reached
TryFile(file, gsize, ids) ==
    IF file.corrupt THEN [out |-> Raise("IOError"), appended |-> FALSE]
    ELSE IF file.nrow * ncol1 /= gsize
    THEN [out |-> Raise("ValueError"), appended |-> TRUE]
    ELSE [out |-> Clip(FlatNorthFirst(file), ids), appended |-> TRUE]

\* Index of the first file whose metadata can be read (lines 254-273); 0 if
\* there is none
FirstReadable(l) ==
    IF \E k \in 1..Len(l) : ~l[k].corrupt
    THEN CHOOSE k \in 1..Len(l) : ~l[k].corrupt /\ \A j \in 1..(k - 1) : l[j].corrupt
    ELSE 0

\* The last file read without error up to position k: its header is the
\* metadata the function ends with
RECURSIVE LastMetadata(_, _)
LastMetadata(l, k) ==
    IF k = 0 THEN l[FirstReadable(l)]
    ELSE IF ~l[k].corrupt THEN l[k] ELSE LastMetadata(l, k - 1)

ImpInit ==
    /\ \E kind \in FolderKinds : files \in Listings(kind)
    /\ idArr \in IdArrays
    /\ pdFreqSetterValidates \in BOOLEAN
    /\ gridSize = 0
    /\ ind = <<>>
    /\ dataArr = <<>>
    /\ skipped_files = <<>>
    /\ error_messages = <<>>
    /\ fi = 0
    /\ dfOut = None
    /\ written = None
    /\ iexc = None
    /\ ipc = "meta"

ImpIdle ==
    /\ files = <<>>
    /\ idArr = None
    /\ pdFreqSetterValidates = FALSE
    /\ gridSize = 0
    /\ ind = <<>>
    /\ dataArr = <<>>
    /\ skipped_files = <<>>
    /\ error_messages = <<>>
    /\ fi = 0
    /\ dfOut = None
    /\ written = None
    /\ iexc = None
    /\ ipc = "idle"

\* lines 242-286: read the metadata of the first readable file, size the
\* grid, default the id array, allocate the rows
ImpReadMetadata ==
    /\ ipc = "meta"
    /\ IF FirstReadable(files) = 0
       THEN /\ ipc' = "raised"
            /\ iexc' = "IndexError"
            /\ UNCHANGED <<gridSize, idArr, dataArr>>
       ELSE LET gs == files[FirstReadable(files)].nrow * ncol1
                ids == IF idArr = None THEN Array([k \in 1..gs |-> k - 1]) ELSE idArr
            IN  /\ gridSize' = gs
                /\ idArr' = ids
                /\ dataArr' = [k \in 1..Len(files) |-> Ones(Len(ids.ids), 0)]
                /\ ipc' = "loop"
                /\ UNCHANGED iexc
    /\ UNCHANGED <<files, pdFreqSetterValidates, ind, skipped_files,
                   error_messages, fi, dfOut, written>>

\* lines 289-319: one pass of the loop over the files
ImpFile ==
    /\ ipc = "loop"
    /\ fi < Len(files)
    /\ LET file == files[fi + 1]
           try == TryFile(file, gridSize, idArr.ids)
           ind1 == IF try.appended THEN Append(ind, file.datetime) ELSE ind
       IN  IF try.out.kind = "row"
           THEN /\ ind' = ind1
                /\ dataArr' = [dataArr EXCEPT ![fi + 1] = try.out.row]
                /\ fi' = fi + 1
                /\ UNCHANGED <<skipped_files, error_messages, ipc, iexc>>
           ELSE /\ skipped_files' = Append(skipped_files, file.name)
                /\ error_messages' = Append(error_messages, try.out.exc)
                /\ IF ind1 = <<>>
                   THEN \* ind[0] in line 315 on the empty list
                        /\ ipc' = "raised"
                        /\ iexc' = "IndexError"
                        /\ ind' = ind1
                        /\ UNCHANGED <<dataArr, fi>>
                   ELSE LET datetime_obj == IF Minute45(ind1[1])
                                            THEN ReplaceMinute45(file.name)
                                            ELSE file.name
                        IN  /\ ind' = Append(ind1, datetime_obj)
                            /\ dataArr' = [dataArr EXCEPT ![fi + 1] = Ones(Len(idArr.ids), NaN)]
                            /\ fi' = fi + 1
                            /\ UNCHANGED <<ipc, iexc>>
    /\ UNCHANGED <<files, idArr, pdFreqSetterValidates, gridSize, dfOut, written>>

\* pd.DataFrame(dataArr, index = ind, columns = idArr)
Frame(index, rows) == [k \in 1..Len(rows) |-> [t |-> index[k], row |-> rows[k]]]

\* pandas checks a frequency against an index by comparing the index with
\* the regular range that starts at its first entry
OnFreq(index, step) == \A k \in 1..Len(index) : index[k] = index[1] + (k - 1) * step

HasDuplicates(index) == \E a, b \in 1..Len(index) : a /= b /\ index[a] = index[b]

\* df.asfreq(freq): date_range(index[0], index[-1], freq), then reindex
FrameAsFreq(frame, step, width) ==
    LET t0 == frame[1].t
        span == frame[Len(frame)].t - t0
        n == IF span < 0 THEN 0 ELSE (span \div step) + 1
    IN  [k \in 1..n |->
           LET t == t0 + (k - 1) * step
           IN  IF \E j \in 1..Len(frame) : frame[j].t = t
               THEN frame[CHOOSE j \in 1..Len(frame) : frame[j].t = t]
               ELSE [t |-> t, row |-> Ones(width, NaN)]]

\* zip(skipped_files, error_messages) as written to the text file
ZipSkipped(names, msgs) ==
    [k \in 1..(IF Len(names) < Len(msgs) THEN Len(names) ELSE Len(msgs)) |->
        <<names[k], msgs[k]>>]

\* lines 322-356: build the frame, set the frequency, write the skip list
ImpFinalize ==
    /\ ipc = "loop"
    /\ fi = Len(files)
    /\ LET frame == Frame(ind, dataArr)
           step == FreqStep(LastMetadata(files, Len(files)).producttype)
           setterRaises == pdFreqSetterValidates /\ ~OnFreq(ind, step)
       IN  IF Len(ind) /= Len(dataArr)
           THEN \* the DataFrame constructor: index and rows differ in length
                /\ ipc' = "raised"
                /\ iexc' = "ValueError"
                /\ UNCHANGED <<dfOut, written>>
           ELSE IF setterRaises /\ HasDuplicates(ind)
           THEN \* reindex of asfreq on a duplicate axis
                /\ ipc' = "raised"
                /\ iexc' = "ValueError"
                /\ UNCHANGED <<dfOut, written>>
           ELSE /\ dfOut' = IF setterRaises
                            THEN FrameAsFreq(frame, step, Len(idArr.ids))
                            ELSE frame
                /\ written' = IF Len(skipped_files) > 0
                              THEN [kind |-> "file",
                                    entries |-> ZipSkipped(skipped_files, error_messages)]
                              ELSE None
                /\ ipc' = "returned"
                /\ UNCHANGED iexc
    /\ UNCHANGED <<files, idArr, pdFreqSetterValidates, gridSize, ind, dataArr,
                   skipped_files, error_messages, fi>>

(***************************************************************************)
(* read_RADOLAN_composite: from the parsed header to the grid              *)
(*                                                                         *)
(* cheader holds what the header says (product type, the BY value, the     *)
(* length of the header string, the grid dimensions); cpayload is the      *)
(* byte sequence that follows the ETX byte in the file.                    *)
(***************************************************************************)
EOT == 4

\* bound: bytes of the modelled payloads
MaxPayload == 5

\* Bytes of the modelled payloads: EOT, LF, the offset byte 16 (offset 0)
\* and the run byte 17 (one cell of value 1)
PayloadBytes == {EOT, LF, 16, 17}

\* One product of each decoding branch: 8-bit, run-length coded, 16-bit
CompositeProducts == {"RX", "PG", "RW"}

\* out['datasize'] = int(header[v[0]:v[1]]) - len(header) - 1
Datasize(by, hlen) == by - hlen - 1

\* fid.read(size): size bytes, fewer at the end of the stream, the whole
\* rest for a negative size
FidRead(stream, size) ==
    IF size < 0 THEN stream ELSE PySlice(stream, 0, size)

\* read_radolan_binary_array without the comparison of len(binarr) with size
read_radolan_binary_array_Unchecked(stream, size) ==
    [kind |-> "bytes", bytes |-> FidRead(stream, size)]

\* read_radolan_binary_array(fid, size)
read_radolan_binary_array(stream, size) ==
    LET binarr == FidRead(stream, size)
    IN  IF Len(binarr) /= size THEN Raise("IOError")
        ELSE [kind |-> "bytes", bytes |-> binarr]

\* fid.readline() at position pos (0-based): up to and including the next
\* LF, or to the end of the buffer
RECURSIVE ReadLine(_, _)
ReadLine(buf, pos) ==
    IF pos >= Len(buf) THEN <<>>
    ELSE IF buf[pos + 1] = LF THEN <<LF>>
    ELSE <<buf[pos + 1]>> \o ReadLine(buf, pos + 1)

\* decode_radolan_runlength_array: rows holds the decoded lines so far, the
\* first one first; first tells the call for the first line from the loop
RECURSIVE RunlengthRows(_, _, _, _, _)
RunlengthRows(buf, pos, rows, first, ncol) ==
    LET line == ReadLine(buf, pos)
    IN  IF line = <<EOT>>
        THEN IF first THEN Raise("TypeError")           \* decode of None
             ELSE [kind |-> "rows", rows |-> rows]
        ELSE LET dline == decode_radolan_runlength_line(line, ncol)
             IN  IF dline.kind = "raise" THEN dline
                 ELSE IF rows /= <<>> /\ Len(dline.row) /= Len(rows[1])
                 THEN Raise("ValueError")               \* np.vstack
                 ELSE RunlengthRows(buf, pos + Len(line), Append(rows, dline.row),
                                    FALSE, ncol)

\* np.flipud(arr), then flattened row by row
RECURSIVE FlipudFlat(_)
FlipudFlat(rows) ==
    IF rows = <<>> THEN <<>> ELSE FlipudFlat(Tail(rows)) \o Head(rows)

decode_radolan_runlength_array(binarr, ncol) ==
    LET res == RunlengthRows(binarr, 0, <<>>, TRUE, ncol)
    IN  IF res.kind = "raise" THEN res
        ELSE [kind |-> "cells", cells |-> FlipudFlat(res.rows)]

\* np.frombuffer(indat, np.uint16): little-endian words, ValueError when
\* the buffer size is odd
Frombuffer16(binarr) ==
    IF Len(binarr) % 2 /= 0 THEN Raise("ValueError")
    ELSE [kind |-> "cells",
          cells |-> [k \in 1..(Len(binarr) \div 2) |->
                        binarr[2 * k - 1] + 256 * binarr[2 * k]]]

\* lines 474-498: the cells of the payload, by branch
DecodeByProduct(a, binarr) ==
    IF a.producttype \in {"RX", "EX", "WX"}
    THEN [kind |-> "cells",
          cells |-> [k \in 1..Len(binarr) |->
                        IF binarr[k] = 250 THEN NODATA ELSE binarr[k]]]
    ELSE IF a.producttype \in {"PG", "PC"}
    THEN decode_radolan_runlength_array(binarr, a.ncol)
    ELSE LET words == Frombuffer16(binarr)
         IN  IF words.kind = "raise" THEN words
             ELSE [kind |-> "cells",
                   cells |-> DecodeWords16(a.producttype, words.cells, a.precision)]

\* arr.reshape((attrs['nrow'], attrs['ncol']))
Reshape(cells, nrow, ncol) ==
    IF Len(cells) /= nrow * ncol THEN Raise("ValueError")
    ELSE [kind |-> "grid", nrow |-> nrow, ncol |-> ncol, cells |-> cells]

CmpInit ==
    /\ \E pt \in CompositeProducts, ds \in (0 - 1)..(MaxPayload + 1),
          shape \in {<<1, 1>>, <<2, 1>>} :
          cheader = [producttype |-> pt, len |-> 20, byValue |-> 21 + ds,
                     nrow |-> shape[1], ncol |-> shape[2], precision |-> 100]
    /\ cpayload \in SeqsUpTo(PayloadBytes, MaxPayload)
    /\ cattrs = None
    /\ cindat = None
    /\ cresult = None
    /\ cpc = "header"

CmpIdle ==
    /\ cheader = None
    /\ cpayload = <<>>
    /\ cattrs = None
    /\ cindat = None
    /\ cresult = None
    /\ cpc = "idle"

\* lines 452-460: attrs = parse_DWD_quant_composite_header(header)
CmpParseHeader ==
    /\ cpc = "header"
    /\ cattrs' = [producttype |-> cheader.producttype,
                  datasize |-> Datasize(cheader.byValue, cheader.len),
                  nrow |-> cheader.nrow, ncol |-> cheader.ncol,
                  precision |-> cheader.precision,
                  nodataflag |-> NODATA]
    /\ cpc' = "read"
    /\ UNCHANGED <<cheader, cpayload, cindat, cresult>>

\* line 470: indat = read_radolan_binary_array(f, attrs['datasize'])
CmpReadBinary ==
    /\ cpc = "read"
    /\ LET r == read_radolan_binary_array(cpayload, cattrs.datasize)
       IN  IF r.kind = "raise"
           THEN /\ cresult' = r
                /\ cpc' = "raised"
                /\ UNCHANGED cindat
           ELSE /\ cindat' = r
                /\ cpc' = "decode"
                /\ UNCHANGED cresult
    /\ UNCHANGED <<cheader, cpayload, cattrs>>

\* lines 472-503: decode by product, reshape, return
CmpDecode ==
    /\ cpc = "decode"
    /\ LET d == DecodeByProduct(cattrs, cindat.bytes)
           g == IF d.kind = "raise" THEN d ELSE Reshape(d.cells, cattrs.nrow, cattrs.ncol)
       IN  /\ cresult' = g
           /\ cpc' = IF g.kind = "raise" THEN "raised" ELSE "returned"
    /\ UNCHANGED <<cheader, cpayload, cattrs, cindat>>

(***************************************************************************)
(* parse_DWD_quant_composite_header: the INT token                         *)
(*                                                                         *)
(* int_token is header[v[0]:v[1]], the characters between "INT" and the    *)
(* next token, as a sequence of one-character strings.                     *)
(***************************************************************************)
\* bound: characters of the modelled token values
MaxIntChars == 4

IntChars == {" ", "0", "1", "5", "U"}

DigitValue(c) == CASE c = "0" -> 0 [] c = "1" -> 1 [] c = "5" -> 5 [] OTHER -> 0 - 1
IsDigit(c) == DigitValue(c) >= 0

\* str.strip() for blanks
RECURSIVE LStrip(_)
LStrip(str) == IF str /= <<>> /\ Head(str) = " " THEN LStrip(Tail(str)) ELSE str
RECURSIVE RStrip(_)
RStrip(str) ==
    IF str /= <<>> /\ str[Len(str)] = " " THEN RStrip(SubSeq(str, 1, Len(str) - 1)) ELSE str

RECURSIVE DigitsValue(_)
DigitsValue(str) ==
    IF str = <<>> THEN 0
    ELSE DigitsValue(SubSeq(str, 1, Len(str) - 1)) * 10 + DigitValue(str[Len(str)])

\* int(s) for a string: blanks around the digits are allowed, anything else
\* is a ValueError
PyInt(str) ==
    LET core == RStrip(LStrip(str))
    IN  IF core = <<>> \/ \E k \in 1..Len(core) : ~IsDigit(core[k])
        THEN Raise("ValueError")
        ELSE [kind |-> "int", v |-> DigitsValue(core)]

\* header[...][-1] == 1: a one-character string compared with the integer 1
StrEqualsInt(c, n) == FALSE

\* lines 212-219: what the INT block does to out; out is modelled by the one
\* key it may set
ParseINT(tok) ==
    LET intervalfaktor == 60
    IN  IF Len(tok) < 2 THEN Raise("IndexError")                  \* [-2]
        ELSE IF tok[Len(tok) - 1] = "U"
        THEN IF StrEqualsInt(tok[Len(tok)], 1)
             THEN LET n == PyInt(SubSeq(tok, 1, Len(tok) - 2))
                  IN  IF n.kind = "raise" THEN n
                      ELSE [kind |-> "out", has_intervalseconds |-> TRUE,
                            intervalseconds |-> n.v * (60 * 24)]
             ELSE [kind |-> "out", has_intervalseconds |-> FALSE, intervalseconds |-> 0]
        ELSE LET n == PyInt(tok)
             IN  IF n.kind = "raise" THEN n
                 ELSE [kind |-> "out", has_intervalseconds |-> TRUE,
                       intervalseconds |-> n.v * intervalfaktor]

PintInit ==
    /\ int_token \in SeqsUpTo(IntChars, MaxIntChars)
    /\ int_out = None
    /\ int_pc = "call"

PintIdle ==
    /\ int_token = <<>>
    /\ int_out = None
    /\ int_pc = "idle"

PintParse ==
    /\ int_pc = "call"
    /\ int_out' = ParseINT(int_token)
    /\ int_pc' = "done"
    /\ UNCHANGED int_token

(***************************************************************************)
(* find_heavy_rainfalls and count_heavy_rainfall_intervals (heavyrain.py)  *)
(*                                                                         *)
(* The function bodies of radproc/heavyrain.py and of the copy             *)
(* build/lib/radproc/heavyrain.py are the same text. Only the copy defines *)
(* _exceeding in its module; radproc/heavyrain.py neither defines nor      *)
(* imports it (it is defined in radproc/erosivity.py). hmodule tells which *)
(* of the two modules runs.                                                *)
(*                                                                         *)
(* A partition is a table of rows [t, row]; row holds one value per cell   *)
(* in tenths of a millimetre, or NaN.                                      *)
(***************************************************************************)
HeavyrainModules == {"radproc/heavyrain.py", "build/lib/radproc/heavyrain.py"}
ExceedingDefined(module) == module = "build/lib/radproc/heavyrain.py"

Str(v) == [kind |-> "str", v |-> v]
List(v) == [kind |-> "list", v |-> v]

\* the if/elif chain with a final else that falls back to the whole year
SeasonMonths_DefaultYear(sn) ==
    IF sn.kind /= "str" THEN None
    ELSE CASE sn.v = "Year" -> List(<<1, 2, 3, 4, 5, 6, 7, 8, 9, 10, 11, 12>>)
           [] sn.v = "April - September" -> List(<<4, 5, 6, 7, 8, 9>>)
           [] sn.v = "October - March" -> List(<<1, 2, 3, 10, 11, 12>>)
           [] sn.v = "January/December" -> List(<<1, 12>>)
           [] sn.v = "Jan" -> List(<<1>>)
           [] sn.v = "Feb" -> List(<<2>>)
           [] sn.v = "Mar" -> List(<<3>>)
           [] sn.v = "Apr" -> List(<<4>>)
           [] sn.v = "May" -> List(<<5>>)
           [] sn.v = "Jun" -> List(<<6>>)
           [] sn.v = "Jul" -> List(<<7>>)
           [] sn.v = "Aug" -> List(<<8>>)
           [] sn.v = "Sep" -> List(<<9>>)
           [] sn.v = "Oct" -> List(<<10>>)
           [] sn.v = "Nov" -> List(<<11>>)
           [] sn.v = "Dec" -> List(<<12>>)
           [] OTHER -> List(<<1, 2, 3, 4, 5, 6, 7, 8, 9, 10, 11, 12>>)

\* lines 155-186: the if/elif chain over the season tokens; None when no
\* branch assigns months
SeasonMonths(sn) ==
    IF sn.kind /= "str" THEN None
    ELSE CASE sn.v = "Year" -> List(<<1, 2, 3, 4, 5, 6, 7, 8, 9, 10, 11, 12>>)
           [] sn.v = "April - September" -> List(<<4, 5, 6, 7, 8, 9>>)
           [] sn.v = "October - March" -> List(<<1, 2, 3, 10, 11, 12>>)
           [] sn.v = "January/December" -> List(<<1, 12>>)
           [] sn.v = "Jan" -> List(<<1>>)
           [] sn.v = "Feb" -> List(<<2>>)
           [] sn.v = "Mar" -> List(<<3>>)
           [] sn.v = "Apr" -> List(<<4>>)
           [] sn.v = "May" -> List(<<5>>)
           [] sn.v = "Jun" -> List(<<6>>)
           [] sn.v = "Jul" -> List(<<7>>)
           [] sn.v = "Aug" -> List(<<8>>)
           [] sn.v = "Sep" -> List(<<9>>)
           [] sn.v = "Oct" -> List(<<10>>)
           [] sn.v = "Nov" -> List(<<11>>)
           [] sn.v = "Dec" -> List(<<12>>)
           [] OTHER -> None

\* lines 245-256: the resampling frequency of the season; None when no
\* branch assigns freq
SeasonFreq(sn) ==
    IF sn = Str("Year") \/ sn = List(<<1, 2, 3, 4, 5, 6, 7, 8, 9, 10, 11, 12>>) THEN Str("A-DEC")
    ELSE IF sn = Str("April - September") THEN Str("A-SEP")
    ELSE IF sn = Str("October - March") THEN Str("A-MAR")
    ELSE IF sn = Str("January/December") THEN Str("A-JAN")
    ELSE IF sn.kind = "str" /\ sn.v \in {"Jan", "Feb", "Mar", "Apr", "May", "Jun",
                                         "Jul", "Aug", "Sep", "Oct", "Nov", "Dec"}
    THEN Str("M")
    ELSE IF sn.kind = "list" THEN Str("M")
    ELSE None

\* np.count_nonzero(rowseries >= thresholdValue) > minArea
exceeding(rowseries, thr, area) ==
    Cardinality({k \in 1..Len(rowseries) : FGe(rowseries[k], thr)}) > area

\* df.loc[exceedances == True]
SelectExceeding(df, thr, area) ==
    SelectSeq(df, LAMBDA r : exceeding(r.row, thr, area))

\* np.arange(year_start, year_end + 1)
YearsRange(ys, ye) == IF ye < ys THEN <<>> ELSE [k \in 1..(ye - ys + 1) |-> ys + k - 1]

\* Number of a month on the axis of months, and back
MonthNo(key) == key[1] * 12 + (key[2] - 1)
KeyOfMonthNo(n) == <<n \div 12, (n % 12) + 1>>

\* The end of the resampling period a month lies in, as a month number:
\* "M" ends every month, "A-<MON>" every year with month <MON>
AnchorMonth(freq) ==
    CASE freq = "A-DEC" -> 12 [] freq = "A-SEP" -> 9 [] freq = "A-MAR" -> 3
      [] freq = "A-JAN" -> 1 [] OTHER -> 0
PeriodEnd(freq, n) ==
    IF freq = "M" THEN n
    ELSE LET a == AnchorMonth(freq) - 1
             m == n % 12
         IN  IF m <= a THEN n - m + a ELSE n - m + 12 + a
PeriodStep(freq) == IF freq = "M" THEN 1 ELSE 12

\* hr_intervals_bool = heavy_rains >= thresholdValue
AtLeast(df, thr) ==
    [k \in 1..Len(df) |->
        [t |-> df[k].t,
         row |-> [c \in 1..Len(df[k].row) |-> IF FGe(df[k].row[c], thr) THEN 1 ELSE 0]]]

RECURSIVE SumRowsCell(_, _)
SumRowsCell(rows, c) ==
    IF rows = <<>> THEN 0 ELSE Head(rows).row[c] + SumRowsCell(Tail(rows), c)

\* df.resample(freq, closed = 'right', label = 'right').sum().dropna() on
\* the axis of months: one row per period from the period of the first row
\* to the period of the last row, labelled with the end of the period. The
\* sum of a period without rows is NaN or 0 depending on the pandas
\* release; dropna() removes the NaN rows.
ResampleSumDropna(df, freq, width, emptyIsNaN) ==
    IF df = <<>> THEN <<>>
    ELSE
    LET pe(k) == PeriodEnd(freq, MonthNo(MonthOf(df[k].t)))
        first == pe(1)
        n == ((pe(Len(df)) - first) \div PeriodStep(freq)) + 1
        bin(j) == SelectSeq(df, LAMBDA r :
                     PeriodEnd(freq, MonthNo(MonthOf(r.t))) = first + (j - 1) * PeriodStep(freq))
        all == [j \in 1..n |->
                   [label |-> KeyOfMonthNo(first + (j - 1) * PeriodStep(freq)),
                    empty |-> bin(j) = <<>>,
                    row |-> [c \in 1..width |-> SumRowsCell(bin(j), c)]]]
    IN  SelectSeq(all, LAMBDA b : ~(b.empty /\ emptyIsNaN))

\* The seasons of the model: recognised tokens, strings that are no token,
\* lists of hmonths
Seasons ==
    {Str(v) : v \in {"Year", "April - September", "January/December", "Jan", "Dec",
                     "Summer", "jan"}}
    \cup {List(<<5>>), List(<<1, 12>>)}

\* Cell values of the modelled rows: NaN, 9.9 mm, 10 mm
HeavyCells == {NaN, 99, 100}

\* The archive of the model: every month of the years 2010 and 2011 except
\* the ones in absent; a month holds two rows of two cells. The rows of
\* month hot of 2010 are r1 and r2, December 2011 has a row with 15 mm in
\* both cells, all other rows are dry.
HeavyArchive(hot, r1, r2, absent) ==
    [key \in ({2010, 2011} \X (1..12)) \ absent |->
        LET t0 == MonthStart(key[1], key[2])
        IN  IF key = <<2010, hot>>
            THEN <<[t |-> t0, row |-> r1], [t |-> t0 + 1, row |-> r2]>>
            ELSE IF key = <<2011, 12>>
            THEN <<[t |-> t0, row |-> <<0, 0>>], [t |-> t0 + 1, row |-> <<150, 150>>]>>
            ELSE <<[t |-> t0, row |-> <<0, 0>>], [t |-> t0 + 1, row |-> <<0, 0>>]>>]

FhrInit ==
    /\ hmodule \in HeavyrainModules
    /\ hentry \in {"find_heavy_rainfalls", "count_heavy_rainfall_intervals"}
    /\ pdEmptySumIsNaN \in BOOLEAN
    /\ \E hot \in {1, 5}, r1 \in HeavyCells \X HeavyCells,
          r2 \in {<<0, 0>>, <<100, 100>>, <<NaN, 150>>},
          absent \in {{}, {<<2010, 4>>}} :
          HDFFile = HeavyArchive(hot, r1, r2, absent)
    /\ season \in Seasons
    /\ year_start = 2010
    /\ year_end \in {2009, 2010, 2011}
    /\ thresholdValue = 100
    /\ minArea \in {0, 1}
    /\ hmonths = None
    /\ hfreq = None
    /\ heavy_rains = None
    /\ hyi = 1
    /\ hmi = 1
    /\ hloads = <<>>
    /\ hresult = None
    /\ fhpc = IF hentry = "find_heavy_rainfalls" THEN "season" ELSE "freq"

FhrIdle ==
    /\ hmodule = ""
    /\ hentry = ""
    /\ pdEmptySumIsNaN = FALSE
    /\ HDFFile = <<>>
    /\ season = None
    /\ year_start = 0
    /\ year_end = 0
    /\ thresholdValue = 0
    /\ minArea = 0
    /\ hmonths = None
    /\ hfreq = None
    /\ heavy_rains = None
    /\ hyi = 0
    /\ hmi = 0
    /\ hloads = <<>>
    /\ hresult = None
    /\ fhpc = "idle"

fhrInputs == <<hmodule, hentry, pdEmptySumIsNaN, HDFFile, season, year_start, year_end,
               thresholdValue, minArea>>

\* count_heavy_rainfall_intervals, lines 245-258: choose freq, then call
\* find_heavy_rainfalls
FhrFreq ==
    /\ fhpc = "freq"
    /\ hfreq' = SeasonFreq(season)
    /\ fhpc' = "season"
    /\ UNCHANGED <<fhrInputs, hmonths, heavy_rains, hyi, hmi, hloads, hresult>>

\* find_heavy_rainfalls, lines 155-188: months from the season
FhrSeason ==
    /\ fhpc = "season"
    /\ hmonths' = SeasonMonths(season)
    /\ fhpc' = "loop"
    /\ UNCHANGED <<fhrInputs, hfreq, heavy_rains, hyi, hmi, hloads, hresult>>

\* lines 190-204: one pass of the loops over years and hmonths
FhrMonth ==
    /\ fhpc = "loop"
    /\ hyi <= Len(YearsRange(year_start, year_end))
    /\ IF hmonths = None
       THEN \* for month in months: months was never assigned
            /\ hresult' = Raise("UnboundLocalError")
            /\ fhpc' = "done"
            /\ UNCHANGED <<heavy_rains, hyi, hmi, hloads>>
       ELSE LET key == <<YearsRange(year_start, year_end)[hyi], hmonths.v[hmi]>>
            IN  IF key \notin DOMAIN HDFFile
                THEN \* load_month: f[dataset]
                     /\ hresult' = Raise("KeyError")
                     /\ fhpc' = "done"
                     /\ UNCHANGED <<heavy_rains, hyi, hmi, hloads>>
                ELSE /\ hloads' = Append(hloads, key)
                     /\ IF ~ExceedingDefined(hmodule)
                        THEN \* df.apply(_exceeding, ...): the name does not resolve
                             /\ hresult' = Raise("NameError")
                             /\ fhpc' = "done"
                             /\ UNCHANGED <<heavy_rains, hyi, hmi>>
                        ELSE LET sel == SelectExceeding(HDFFile[key], thresholdValue, minArea)
                             IN  /\ heavy_rains' =
                                       IF heavy_rains = None
                                       THEN [kind |-> "df", rows |-> sel]
                                       ELSE [kind |-> "df", rows |-> heavy_rains.rows \o sel]
                                 /\ IF hmi < Len(hmonths.v)
                                    THEN hmi' = hmi + 1 /\ hyi' = hyi
                                    ELSE hmi' = 1 /\ hyi' = hyi + 1
                                 /\ UNCHANGED <<hresult, fhpc>>
    /\ UNCHANGED <<fhrInputs, hmonths, hfreq>>

\* line 206: return heavy_rains
FhrReturn ==
    /\ fhpc = "loop"
    /\ hyi > Len(YearsRange(year_start, year_end))
    /\ IF heavy_rains = None
       THEN hresult' = Raise("UnboundLocalError") /\ fhpc' = "done"
       ELSE IF hentry = "find_heavy_rainfalls"
       THEN hresult' = heavy_rains /\ fhpc' = "done"
       ELSE hresult' = hresult /\ fhpc' = "resample"
    /\ UNCHANGED <<fhrInputs, hmonths, hfreq, heavy_rains, hyi, hmi, hloads>>

\* count_heavy_rainfall_intervals, lines 262-269
FhrResample ==
    /\ fhpc = "resample"
    /\ hresult' = IF hfreq = None THEN Raise("UnboundLocalError")
                  ELSE [kind |-> "counts",
                        rows |-> ResampleSumDropna(AtLeast(heavy_rains.rows, thresholdValue),
                                                   hfreq.v, 2, pdEmptySumIsNaN)]
    /\ fhpc' = "done"
    /\ UNCHANGED <<fhrInputs, hmonths, hfreq, heavy_rains, hyi, hmi, hloads>>

(***************************************************************************)
(* load_months_from_hdf5 called on its own                                 *)
(*                                                                         *)
(* The archive holds the first three months of a year; a month after the   *)
(* first requested one may hold a table with a missing interval. The       *)
(* first requested month is regular, so that fr = df.index.freq is the     *)
(* step of the time axis.                                                  *)
(***************************************************************************)
\* A stored table of month m that lacks its middle interval
GappyPartition(y, m) ==
    SelectSeq(Partition(y, m, "lead"), LAMBDA r : r.t /= MonthStart(y, m) + PartLen \div 2)

StoredTables(y, m) == {Partition(y, m, "dry"), Partition(y, m, "trail"), GappyPartition(y, m)}

\* The month lists of the model: one month, adjacent months, months that
\* are not adjacent
MonthLists == {<<1>>, <<2>>, <<1, 2>>, <<2, 3>>, <<1, 3>>, <<1, 2, 3>>}

LmInit ==
    /\ lm_year = 2010
    /\ lm_months \in MonthLists
    /\ \E t1 \in StoredTables(2010, 1), t2 \in StoredTables(2010, 2),
          t3 \in StoredTables(2010, 3), absent \in {{}, {<<2010, 3>>}} :
          /\ lm_months[1] = 1 => t1 /= GappyPartition(2010, 1)
          /\ lm_months[1] = 2 => t2 /= GappyPartition(2010, 2)
          /\ lm_file = [key \in {<<2010, 1>>, <<2010, 2>>, <<2010, 3>>} \ absent |->
                           IF key[2] = 1 THEN t1 ELSE IF key[2] = 2 THEN t2 ELSE t3]
    /\ lm_out = None
    /\ lm_pc = "call"

LmIdle ==
    /\ lm_file = <<>>
    /\ lm_year = 0
    /\ lm_months = <<>>
    /\ lm_out = None
    /\ lm_pc = "idle"

\* df = load_months_from_hdf5(HDFFile, year, months): the frame, or the
\* KeyError of f[dataset]
LmLoad ==
    /\ lm_pc = "call"
    /\ LET r == load_months_from_hdf5(lm_file, lm_year, lm_months)
       IN  lm_out' = IF r.ok THEN Returned(r.df) ELSE Raise("KeyError")
    /\ lm_pc' = "done"
    /\ UNCHANGED <<lm_file, lm_year, lm_months>>

(***************************************************************************)
(* annual_R_factor                                                         *)
(*                                                                         *)
(* The archive holds hourly tables of one column for every month of two    *)
(* years. The modelled months hold no rain, only dry and NaN intervals, so *)
(* that calc_R_factor gives (0, 0) unless it gives (NaN, NaN). A modelled  *)
(* month has MonthIntervals intervals.                                     *)
(***************************************************************************)
\* bound: number of hourly intervals of a modelled month
MonthIntervals == 30

\* A month whose first n intervals are NaN and whose other intervals are dry
ColumnWithNaN(n) == [k \in 1..MonthIntervals |-> IF k <= n THEN NaN ELSE 0]

\* max_nan_days = max_nan_days/12 (line 680): the quotient in twelfths of a
\* day. The division of two integers is the floor division under Python 2
\* and the true division under Python 3.
DaysTwelfths(days, truediv) == IF truediv THEN days ELSE (days \div 12) * 12

\* calc_R_factor, lines 313-319, for max_nan_days given in twelfths of a day
TooManyNaNTwelfths(col, freq, twelfths) ==
    NanCount(col) * 12 > MaxNanIntervals(twelfths, freq)

\* calc_R_factor(column, freq_min, max_nan_days) on a column without rain:
\* (NaN, NaN) for too many NaN intervals, else no event and (0.0, 0)
calc_R_factor_norain(col, freq, twelfths) ==
    IF TooManyNaNTwelfths(col, freq, twelfths) THEN [R |-> NaN, N |-> NaN]
    ELSE [R |-> 0, N |-> 0]

\* Ryear += R on floats: NaN if one of the two is NaN
NanAdd(a, b) == IF IsNaN(a) \/ IsNaN(b) THEN NaN ELSE a + b

\* NaN intervals of the three months of 2010 that the model varies
NanCounts == {0, 1, 24, 25}

\* The archive: January, February and December 2010 have n1, n2 and n12 NaN
\* intervals, every other month of 2010 and 2011 has none
AnnualArchive(n1, n2, n12) ==
    [key \in {2010, 2011} \X (1..12) |->
        IF key = <<2010, 1>> THEN ColumnWithNaN(n1)
        ELSE IF key = <<2010, 2>> THEN ColumnWithNaN(n2)
        ELSE IF key = <<2010, 12>> THEN ColumnWithNaN(n12)
        ELSE ColumnWithNaN(0)]

ArInit ==
    /\ ar_truediv \in BOOLEAN
    /\ \E n1, n2, n12 \in NanCounts : ar_file = AnnualArchive(n1, n2, n12)
    /\ ar_year_start = 2010
    /\ ar_year_end \in {2009, 2010, 2011}
    /\ ar_max_nan_days \in {0, 1, 12, 13}
    /\ ar_twelfths = 0
    /\ ar_freq_min = 0
    /\ ar_years = <<>>
    /\ ar_yi = 0
    /\ ar_mi = 0
    /\ Ryear = 0
    /\ Nyear = 0
    /\ RannualDF = <<>>
    /\ NannualDF = <<>>
    /\ ar_pc = "start"

ArIdle ==
    /\ ar_truediv = FALSE
    /\ ar_file = <<>>
    /\ ar_year_start = 0
    /\ ar_year_end = 0
    /\ ar_max_nan_days = 0
    /\ ar_twelfths = 0
    /\ ar_freq_min = 0
    /\ ar_years = <<>>
    /\ ar_yi = 0
    /\ ar_mi = 0
    /\ Ryear = 0
    /\ Nyear = 0
    /\ RannualDF = <<>>
    /\ NannualDF = <<>>
    /\ ar_pc = "idle"

arInputs == <<ar_truediv, ar_file, ar_year_start, ar_max_nan_days>>

\* lines 674-687: years, the divided max_nan_days, the frequency of the
\* first table
ArStart ==
    /\ ar_pc = "start"
    /\ ar_year_end' = IF ar_year_start > ar_year_end THEN ar_year_start ELSE ar_year_end
    /\ ar_years' = YearsRange(ar_year_start, ar_year_end')
    /\ ar_twelfths' = DaysTwelfths(ar_max_nan_days, ar_truediv)
    /\ ar_freq_min' = 60
    /\ ar_yi' = 1
    /\ ar_mi' = 1
    /\ ar_pc' = "month"
    /\ UNCHANGED <<arInputs, Ryear, Nyear, RannualDF, NannualDF>>

\* lines 689-710: one month of the year: January starts Ryear and Nyear,
\* every other month is added to them
ArMonth ==
    /\ ar_pc = "month"
    /\ ar_yi <= Len(ar_years)
    /\ ar_mi <= 12
    /\ LET df == ar_file[<<ar_years[ar_yi], ar_mi>>]
           r == calc_R_factor_norain(df, ar_freq_min, ar_twelfths)
       IN  /\ Ryear' = IF ar_mi = 1 THEN r.R ELSE NanAdd(Ryear, r.R)
           /\ Nyear' = IF ar_mi = 1 THEN r.N ELSE NanAdd(Nyear, r.N)
    /\ ar_mi' = ar_mi + 1
    /\ UNCHANGED <<arInputs, ar_year_end, ar_years, ar_twelfths, ar_freq_min, ar_yi,
                   RannualDF, NannualDF, ar_pc>>

\* lines 713-714: the row of the year
ArYear ==
    /\ ar_pc = "month"
    /\ ar_yi <= Len(ar_years)
    /\ ar_mi = 13
    /\ RannualDF' = Append(RannualDF, Ryear)
    /\ NannualDF' = Append(NannualDF, Nyear)
    /\ ar_yi' = ar_yi + 1
    /\ ar_mi' = 1
    /\ UNCHANGED <<arInputs, ar_year_end, ar_years, ar_twelfths, ar_freq_min,
                   Ryear, Nyear, ar_pc>>

\* line 716: return RannualDF, NannualDF
ArReturn ==
    /\ ar_pc = "month"
    /\ ar_yi > Len(ar_years)
    /\ ar_pc' = "done"
    /\ UNCHANGED <<arInputs, ar_year_end, ar_years, ar_twelfths, ar_freq_min, ar_yi,
                   ar_mi, Ryear, Nyear, RannualDF, NannualDF>>

(***************************************************************************)
(* load_years_and_resample, its wrappers and hdf5_to_hydrologicalSeasons   *)
(*                                                                         *)
(* Time is counted in ticks of half an hour on a calendar whose years have *)
(* 12 months, whose months have DaysPerMonth days and whose days have      *)
(* HoursPerDay hours: an even tick is a full hour, an odd tick a time      *)
(* within the hour (the HH:50 of an hourly sum). A row is a record: t its  *)
(* label, v its value, first and last the earliest and the latest          *)
(* interval of the archive accumulated in it (history, not read by the     *)
(* program).                                                               *)
(***************************************************************************)
\* bounds: hours of a modelled day, days of a modelled month
HoursPerDay == 2
DaysPerMonth == 2

DayTicks == 2 * HoursPerDay
MonthTicks == DayTicks * DaysPerMonth
YearTicks == 12 * MonthTicks
\* Midnight of the first day of month mo of year yr
MonthTick(yr, mo) == (yr * 12 + (mo - 1)) * MonthTicks
\* Timestamp.day
DayOfMonth(tick) == ((tick \div DayTicks) % DaysPerMonth) + 1

\* The stored table of a month: one row per hour at HH:50, each with value val
StoredMonth(yr, mo, val) ==
    [k \in 1..(DaysPerMonth * HoursPerDay) |->
        LET tick == MonthTick(yr, mo) + 2 * (k - 1) + 1
        IN  [t |-> tick, v |-> val, first |-> tick, last |-> tick]]

\* The label resample(frequency, closed = 'right', label = 'right') gives
\* the bin of a timestamp: the right edge of the hour or of the day (a
\* timestamp on an edge belongs to the bin that ends there), the month end
\* and the year end (midnight of the last day of the month, of the year)
CeilDiv(a, b) == (a + b - 1) \div b
RightLabel(frequency, tick) ==
    CASE frequency = "H" -> CeilDiv(tick, 2) * 2
      [] frequency = "D" -> CeilDiv(tick, DayTicks) * DayTicks
      [] frequency = "M" -> ((tick \div MonthTicks) + 1) * MonthTicks - DayTicks
      [] frequency = "A-DEC" -> ((tick \div YearTicks) + 1) * YearTicks - DayTicks

\* The step between two labels of a frequency
LabelStep(frequency) ==
    CASE frequency = "H" -> 2
      [] frequency = "D" -> DayTicks
      [] frequency = "M" -> MonthTicks
      [] frequency = "A-DEC" -> YearTicks

\* '2QS-MAY' with label = 'left' (closed is 'left' by default for QS): the
\* bins are half-years that start at the quarter start (February, May,
\* August, November) at or before the first row; the label is the left edge
QuarterStart(tick) ==
    LET n == tick \div MonthTicks IN n - ((n - 1) % 3)
HalfYearLeftLabel(df, tick) ==
    LET start == QuarterStart(df[1].t)
        n == tick \div MonthTicks
    IN  (start + ((n - start) \div 6) * 6) * MonthTicks

SetMin(S) == CHOOSE x \in S : \A z \in S : x <= z
SetMax(S) == CHOOSE x \in S : \A z \in S : x >= z
\* The sum of the values of the rows of df at the positions idx
RECURSIVE SumV(_, _)
SumV(df, idx) ==
    IF idx = {} THEN 0 ELSE df[SetMin(idx)].v + SumV(df, idx \ {SetMin(idx)})
\* The numbers of a set in ascending order
SortedSeq(S) ==
    [j \in 1..Cardinality(S) |-> CHOOSE x \in S : Cardinality({z \in S : z < x}) = j - 1]

\* The only element of a set of one element
TheOne(S) == CHOOSE x \in S : TRUE

\* .resample(...).sum() of a table without empty bins: one row per label,
\* in the order of the labels
ResampleRows(df, labelled, labels) ==
    [j \in 1..Len(labels) |->
        LET bin == { k \in 1..Len(df) : labelled[k] = labels[j] }
        IN  [t |-> labels[j], v |-> SumV(df, bin),
             first |-> SetMin({ df[k].first : k \in bin }),
             last |-> SetMax({ df[k].last : k \in bin })]]
ResampleSum(df, LabelOf(_)) ==
    TheOne({ ResampleRows(df, labelled, labels) :
                labelled \in {[k \in 1..Len(df) |-> LabelOf(df[k].t)]},
                labels \in {SortedSeq({ LabelOf(df[k].t) : k \in 1..Len(df) })} })

ResampleRight(df, frequency) == ResampleSum(df, LAMBDA tick : RightLabel(frequency, tick))

\* dfY[~dfY.index.duplicated(keep='first')]
DropDuplicated(df) ==
    TheOne({ [j \in 1..Len(keep) |-> df[keep[j]]] :
               keep \in {SortedSeq({ k \in 1..Len(df) :
                                       \A j \in 1..(k - 1) : df[j].t /= df[k].t })} })

\* dfY.asfreq(frequency), after the duplicated labels are dropped if there
\* are any: the labels from the first to the last row, NaN where no row is
AsFreqRows(d, step) ==
    LET n == ((d[Len(d)].t - d[1].t) \div step) + 1
    IN  IF n <= 0 THEN <<>>
        ELSE [k \in 1..n |->
                LET tick == d[1].t + (k - 1) * step
                IN  IF \E j \in 1..Len(d) : d[j].t = tick
                    THEN d[CHOOSE j \in 1..Len(d) : d[j].t = tick]
                    ELSE [t |-> tick, v |-> NaN, first |-> tick, last |-> tick]]
AsFreqLabels(df, frequency) ==
    IF df = <<>> THEN df
    ELSE TheOne({ AsFreqRows(d, LabelStep(frequency)) : d \in {DropDuplicated(df)} })

\* dfY.index = dfY.index.shift(-1)
ShiftBack(df, frequency) ==
    [k \in 1..Len(df) |-> [df[k] EXCEPT !.t = @ - LabelStep(frequency)]]

\* lines 239-250: the pandas alias of freq.lower(); None stands for sys.exit()
FrequencyOf(freqArg) ==
    CASE freqArg \in {"years", "Years"} -> Str("A-DEC")
      [] freqArg \in {"months", "Months"} -> Str("M")
      [] freqArg \in {"days", "Days"} -> Str("D")
      [] freqArg \in {"hours", "Hours"} -> Str("H")
      [] OTHER -> None

\* Frequency of the first resampling of a month: months if years are asked
MonthFrequency(frequency) == IF frequency = "A-DEC" THEN "M" ELSE frequency

\* The calls of the model: the function itself and its wrappers with the
\* freq they pass on
YearsCalls ==
    {<<"load_years_and_resample", "Months">>, <<"load_years_and_resample", "weeks">>,
     <<"hdf5_to_years", "years">>, <<"hdf5_to_months", "months">>,
     <<"hdf5_to_days", "days">>, <<"hdf5_to_hours", "hours">>,
     <<"hdf5_to_hydrologicalSeasons", "months">>}

\* year_end after lines 253-254 (and 495-496)
FixYearEnd(ys, ye) == IF ye = 0 \/ (ye /= 0 /\ ys > ye) THEN ys ELSE ye

\* The archive: the months of 2010 and 2011 except the absent ones, every
\* hour of 2010 with value val and every hour of 2011 with twice val
YearsArchive(val, absent) ==
    [key \in ({2010, 2011} \X (1..12)) \ absent |->
        StoredMonth(key[1], key[2], IF key[1] = 2010 THEN val ELSE 2 * val)]

ReturnedNone == [kind |-> "returnedNone"]

LyInit ==
    /\ \E c \in YearsCalls : ly_entry = c[1] /\ ly_freq = c[2]
    /\ \E val \in {1, 3}, absent \in {{}, {<<2010, 1>>}, {<<2010, 5>>}, {<<2011, 1>>},
                                      {<<2011, 12>>}} :
          ly_file = YearsArchive(val, absent)
    /\ ly_year_start = 2010
    /\ ly_year_end \in {0, 2009, 2010, 2011}
    /\ ly_frequency = None
    /\ ly_years = <<>>
    /\ ly_yi = 0
    /\ ly_mi = 0
    /\ ly_month = 0
    /\ ly_df = <<>>
    /\ ly_dfY = <<>>
    /\ ly_ret = None
    /\ ly_out = None
    /\ ly_pc = "start"

LyIdle ==
    /\ ly_entry = ""
    /\ ly_freq = ""
    /\ ly_file = <<>>
    /\ ly_year_start = 0
    /\ ly_year_end = 0
    /\ ly_frequency = None
    /\ ly_years = <<>>
    /\ ly_yi = 0
    /\ ly_mi = 0
    /\ ly_month = 0
    /\ ly_df = <<>>
    /\ ly_dfY = <<>>
    /\ ly_ret = None
    /\ ly_out = None
    /\ ly_pc = "idle"

lyInputs == <<ly_entry, ly_freq, ly_file, ly_year_start>>

\* lines 239-256: frequency from freq (sys.exit() for any other word),
\* year_end set to year_start, years
LyStart ==
    /\ ly_pc = "start"
    /\ ly_frequency' = FrequencyOf(ly_freq)
    /\ IF FrequencyOf(ly_freq) = None
       THEN /\ ly_out' = Raise("SystemExit")
            /\ ly_pc' = "done"
            /\ UNCHANGED <<ly_year_end, ly_years, ly_yi>>
       ELSE /\ ly_year_end' = FixYearEnd(ly_year_start, ly_year_end)
            /\ ly_years' = YearsRange(ly_year_start, ly_year_end')
            /\ ly_yi' = 1
            /\ ly_pc' = "january"
            /\ UNCHANGED ly_out
    /\ UNCHANGED <<lyInputs, ly_mi, ly_month, ly_df, ly_dfY, ly_ret>>

\* lines 329-330: except KeyError: print('Error at %i/%i' %(year, month)).
\* The function then returns None; if month was never assigned (0), the
\* handler itself raises UnboundLocalError, which leaves the function.
KeyErrorHandler(monthVar) ==
    IF monthVar = 0
    THEN /\ ly_out' = Raise("UnboundLocalError")
         /\ ly_pc' = "done"
         /\ UNCHANGED ly_ret
    ELSE /\ ly_ret' = ReturnedNone
         /\ ly_pc' = "returned"
         /\ UNCHANGED ly_out

\* lines 262-274: the first month of a year
LyJanuary ==
    /\ ly_pc = "january"
    /\ ly_yi <= Len(ly_years)
    /\ IF <<ly_years[ly_yi], 1>> \notin DOMAIN ly_file
       THEN /\ KeyErrorHandler(ly_month)
            /\ UNCHANGED <<ly_df, ly_mi>>
       ELSE /\ ly_df' = ResampleRight(ly_file[<<ly_years[ly_yi], 1>>],
                                      MonthFrequency(ly_frequency.v))
            /\ ly_mi' = 2
            /\ ly_pc' = "months"
            /\ UNCHANGED <<ly_ret, ly_out>>
    /\ UNCHANGED <<lyInputs, ly_year_end, ly_frequency, ly_years, ly_yi, ly_month, ly_dfY>>

\* lines 277-291: one of the months 2..12 of the year
LyMonth ==
    /\ ly_pc = "months"
    /\ ly_mi <= 12
    /\ ly_month' = ly_mi
    /\ IF <<ly_years[ly_yi], ly_mi>> \notin DOMAIN ly_file
       THEN /\ KeyErrorHandler(ly_mi)
            /\ UNCHANGED <<ly_df, ly_mi>>
       ELSE /\ ly_df' = ly_df \o ResampleRight(ly_file[<<ly_years[ly_yi], ly_mi>>],
                                               MonthFrequency(ly_frequency.v))
            /\ ly_mi' = ly_mi + 1
            /\ UNCHANGED <<ly_ret, ly_out, ly_pc>>
    /\ UNCHANGED <<lyInputs, ly_year_end, ly_frequency, ly_years, ly_yi, ly_dfY>>

\* lines 296-307: the year is resampled and appended to dfY
LyYearEnd ==
    /\ ly_pc = "months"
    /\ ly_mi = 13
    /\ LET yearDf == ResampleRight(ly_df, ly_frequency.v)
       IN  ly_dfY' = IF ly_yi = 1 THEN yearDf ELSE ly_dfY \o yearDf
    /\ ly_yi' = ly_yi + 1
    /\ ly_pc' = "january"
    /\ UNCHANGED <<lyInputs, ly_year_end, ly_frequency, ly_years, ly_mi, ly_month, ly_df,
                   ly_ret, ly_out>>

\* lines 309-324: asfreq, the shift of the labels of days, return dfY
LyFinish ==
    /\ ly_pc = "january"
    /\ ly_yi > Len(ly_years)
    /\ LET regular == AsFreqLabels(ly_dfY, ly_frequency.v)
           shifted == IF ly_frequency.v = "D" /\ DayOfMonth(regular[1].t) = 2
                      THEN ShiftBack(regular, ly_frequency.v) ELSE regular
       IN  /\ ly_dfY' = shifted
           /\ ly_ret' = Returned(shifted)
    /\ ly_pc' = "returned"
    /\ UNCHANGED <<lyInputs, ly_year_end, ly_frequency, ly_years, ly_yi, ly_mi, ly_month,
                   ly_df, ly_out>>

\* lines 365, 395, 424, 459: return load_years_and_resample(...)
LyWrapper ==
    /\ ly_pc = "returned"
    /\ ly_entry /= "hdf5_to_hydrologicalSeasons"
    /\ ly_out' = ly_ret
    /\ ly_pc' = "done"
    /\ UNCHANGED <<lyInputs, ly_year_end, ly_frequency, ly_years, ly_yi, ly_mi, ly_month,
                   ly_df, ly_dfY, ly_ret>>

\* dfm.truncate('%i-05' % year_start, '%i-10' % year_end)
Truncate(dfm, ys, ye) ==
    SelectSeq(dfm, LAMBDA r : r.t >= MonthTick(ys, 5) /\ r.t < MonthTick(ye, 11))

\* hdf5_to_hydrologicalSeasons, lines 500-509: truncate and resample the
\* table of months; None has no truncate
LyHydro ==
    /\ ly_pc = "returned"
    /\ ly_entry = "hdf5_to_hydrologicalSeasons"
    /\ ly_out' =
          IF ly_ret = ReturnedNone THEN Raise("AttributeError")
          ELSE LET dfm == Truncate(ly_ret.df, ly_year_start, ly_year_end)
               IN  IF dfm = <<>> THEN Returned(<<>>)
                   ELSE Returned(ResampleSum(dfm, LAMBDA tick : HalfYearLeftLabel(dfm, tick)))
    /\ ly_pc' = "done"
    /\ UNCHANGED <<lyInputs, ly_year_end, ly_frequency, ly_years, ly_yi, ly_mi, ly_month,
                   ly_df, ly_dfY, ly_ret>>

(***************************************************************************)
(* radolan_binaries_to_hdf5                                                *)
(*                                                                         *)
(* inFolder is given as the list x of its parts between the delimiters.    *)
(* What radolan_binaries_to_dataframe makes of the files of a folder is    *)
(* the content of the folder: a table, or an exception.                    *)
(***************************************************************************)
\* bound: number of imports of a modelled run
MaxImports == 3

\* x[-k]; IndexError for a list of fewer than k parts
HasPart(x, k) == k <= Len(x)
Part(x, k) == x[Len(x) + 1 - k]

\* lines 415-428: the month, the first of x[-1], x[-2], x[-3] with one or
\* two characters; None stands for sys.exit()
MonthOfPath(x) ==
    IF Len(Part(x, 1)) \in {1, 2} THEN Str(Part(x, 1))
    ELSE IF ~HasPart(x, 2) THEN Raise("IndexError")
    ELSE IF Len(Part(x, 2)) \in {1, 2} THEN Str(Part(x, 2))
    ELSE IF ~HasPart(x, 3) THEN Raise("IndexError")
    ELSE IF Len(Part(x, 3)) \in {1, 2} THEN Str(Part(x, 3))
    ELSE Raise("SystemExit")

\* lines 431-439: the year, the first of x[-2], x[-3], x[-4] with four
\* characters
YearOfPath(x) ==
    IF ~HasPart(x, 2) THEN Raise("IndexError")
    ELSE IF Len(Part(x, 2)) = 4 THEN Str(Part(x, 2))
    ELSE IF ~HasPart(x, 3) THEN Raise("IndexError")
    ELSE IF Len(Part(x, 3)) = 4 THEN Str(Part(x, 3))
    ELSE IF ~HasPart(x, 4) THEN Raise("IndexError")
    ELSE IF Len(Part(x, 4)) = 4 THEN Str(Part(x, 4))
    ELSE Raise("SystemExit")

\* line 442: HDFDataset = "/".join([year, month]), or the exception that
\* ends the call before
DatasetOfPath(x) ==
    IF MonthOfPath(x).kind = "raise" THEN MonthOfPath(x)
    ELSE IF YearOfPath(x).kind = "raise" THEN YearOfPath(x)
    ELSE [kind |-> "key", year |-> YearOfPath(x).v, month |-> MonthOfPath(x).v]

\* f.put(HDFDataset, df) in the fixed format: an existing node is removed
\* and written anew; a put that appends to the existing node
HDFPut_Append(store, key, df) ==
    [k \in DOMAIN store \cup {key} |->
        IF k /= key THEN store[k]
        ELSE IF key \in DOMAIN store THEN store[key] \o df ELSE df]

\* f.put(HDFDataset, df) in the fixed format: an existing node is removed
\* and written anew
HDFPut(store, key, df) ==
    [k \in DOMAIN store \cup {key} |-> IF k = key THEN df ELSE store[k]]

\* The folders of the model, as lists of the parts of their paths:
\* P:/data/2008/5, P:/data/2008/5/, P:/data/2008/05, P:/data/2008/6,
\* P:\\data\\2008\\5\\ and P:/data/may
FolderPaths ==
    {<<"P:", "data", "2008", "5">>, <<"P:", "data", "2008", "5", "">>,
     <<"P:", "data", "2008", "05">>, <<"P:", "data", "2008", "6">>,
     <<"P:", "", "data", "", "2008", "", "5", "", "">>, <<"P:", "data", "may">>}

\* What radolan_binaries_to_dataframe gives for the files of a folder: two
\* tables and an exception
FolderContents ==
    {Returned(<<[t |-> 1, v |-> 0]>>),
     Returned(<<[t |-> 1, v |-> 5], [t |-> 2, v |-> NaN]>>),
     Raise("IndexError")}

H5Init ==
    /\ h5_store = <<>>
    /\ h5_log = <<>>
    /\ h5_exc = None

H5Idle ==
    /\ h5_store = <<>>
    /\ h5_log = <<>>
    /\ h5_exc = None

\* radolan_binaries_to_hdf5(inFolder, HDFFile, idArr), lines 402-455
H5Import ==
    /\ Len(h5_log) < MaxImports
    /\ \E x \in FolderPaths, content \in FolderContents :
          LET dataset == DatasetOfPath(x)
          IN  /\ h5_log' = Append(h5_log, [x |-> x, content |-> content])
              /\ IF dataset.kind = "raise"
                 THEN h5_exc' = dataset /\ UNCHANGED h5_store
                 ELSE IF content.kind = "raise"
                 THEN h5_exc' = content /\ UNCHANGED h5_store
                 ELSE /\ h5_store' = HDFPut(h5_store, <<dataset.year, dataset.month>>, content.df)
                      /\ h5_exc' = None

(***************************************************************************)
(* A month imported by radolan_binaries_to_hdf5 and read by load_month     *)
(***************************************************************************)
\* "%i" % n for a number that is not negative
DigitText(d) ==
    CASE d = 0 -> "0" [] d = 1 -> "1" [] d = 2 -> "2" [] d = 3 -> "3" [] d = 4 -> "4"
      [] d = 5 -> "5" [] d = 6 -> "6" [] d = 7 -> "7" [] d = 8 -> "8" [] d = 9 -> "9"
RECURSIVE FormatInt(_)
FormatInt(n) == IF n < 10 THEN DigitText(n) ELSE FormatInt(n \div 10) \o DigitText(n % 10)

\* core.load_month, line 191: dataset = "%4i/%i" % (year, month), for a
\* year of four digits
DatasetOfMonth(yr, mo) == <<FormatInt(yr), FormatInt(mo)>>

\* core.load_month(HDFFile, year, month): the table, or the KeyError of
\* f[dataset]
load_month(store, yr, mo) ==
    IF DatasetOfMonth(yr, mo) \in DOMAIN store
    THEN Returned(store[DatasetOfMonth(yr, mo)])
    ELSE Raise("KeyError")

\* The month folders of the model with the year and the month they hold:
\* <inFolder>/2008/5, <inFolder>/2008/5/, <inFolder>/2008/05,
\* <inFolder>/2008/05/, <inFolder>/2008/12, <inFolder>/2009/1/
MonthFolders ==
    {[x |-> <<"C:", "Data", "RW", "2008", "5">>, yr |-> 2008, mo |-> 5],
     [x |-> <<"C:", "Data", "RW", "2008", "5", "">>, yr |-> 2008, mo |-> 5],
     [x |-> <<"C:", "Data", "RW", "2008", "05">>, yr |-> 2008, mo |-> 5],
     [x |-> <<"C:", "Data", "RW", "2008", "05", "">>, yr |-> 2008, mo |-> 5],
     [x |-> <<"C:", "Data", "RW", "2008", "12">>, yr |-> 2008, mo |-> 12],
     [x |-> <<"C:", "Data", "RW", "2009", "1", "">>, yr |-> 2009, mo |-> 1]}

RtInit ==
    /\ rt_folder \in MonthFolders
    /\ rt_content \in FolderContents
    /\ rt_prior \in BOOLEAN
    /\ rt_store = IF rt_prior
                  THEN HDFPut(<<>>, <<"2008", "5">>, <<[t |-> 0, v |-> 7]>>)
                  ELSE <<>>
    /\ rt_year \in {2008, 2009}
    /\ rt_month \in {1, 5, 12}
    /\ rt_exc = None
    /\ rt_out = None
    /\ rt_pc = "import"

RtIdle ==
    /\ rt_folder = None
    /\ rt_content = None
    /\ rt_prior = FALSE
    /\ rt_store = <<>>
    /\ rt_year = 0
    /\ rt_month = 0
    /\ rt_exc = None
    /\ rt_out = None
    /\ rt_pc = "idle"

\* radolan_binaries_to_hdf5(inFolder, HDFFile, idArr), lines 402-455
RtImport ==
    /\ rt_pc = "import"
    /\ LET dataset == DatasetOfPath(rt_folder.x)
       IN  IF dataset.kind = "raise"
           THEN rt_exc' = dataset /\ UNCHANGED rt_store
           ELSE IF rt_content.kind = "raise"
           THEN rt_exc' = rt_content /\ UNCHANGED rt_store
           ELSE /\ rt_store' = HDFPut(rt_store, <<dataset.year, dataset.month>>, rt_content.df)
                /\ rt_exc' = None
    /\ rt_pc' = "load"
    /\ UNCHANGED <<rt_folder, rt_content, rt_prior, rt_year, rt_month, rt_out>>

\* core.load_month(HDFFile, year, month), lines 189-194
RtLoadMonth ==
    /\ rt_pc = "load"
    /\ rt_out' = load_month(rt_store, rt_year, rt_month)
    /\ rt_pc' = "done"
    /\ UNCHANGED <<rt_folder, rt_content, rt_prior, rt_store, rt_year, rt_month, rt_exc>>

(***************************************************************************)
(* raw.process_radolan_data and raw._process_year                          *)
(***************************************************************************)
\* What os.listdir finds in a year folder: a month folder whose import
\* returns ("ok"), a month folder whose import raises ("raise"), or an
\* entry that is not a directory ("file").
MaxEntries == 2
MaxYears == 2
EntryKinds == {"ok", "raise", "file"}
YearListings == UNION { [1..n -> EntryKinds] : n \in 1..MaxEntries }
Trees == UNION { [1..n -> YearListings] : n \in 1..MaxYears }

\* The entry <<y, k>> of the tree is the k-th entry of the y-th year folder.
\* _process_year, lines 461-462: the entries that are directories
monthFolders(tree, y) ==
    SelectSeq([k \in 1..Len(tree[y]) |-> <<y, k>>],
              LAMBDA e : tree[e[1]][e[2]] # "file")

PrInit ==
    /\ pr_tree \in Trees
    /\ pr_yi = 1
    /\ pr_mi = 1
    /\ pr_failed = <<>>
    /\ pr_store = {}
    /\ pr_stdout = <<>>
    /\ pr_textfile = None
    /\ pr_ret = None
    /\ pr_pc = "year"

PrIdle ==
    /\ pr_tree = <<>>
    /\ pr_yi = 0
    /\ pr_mi = 0
    /\ pr_failed = <<>>
    /\ pr_store = {}
    /\ pr_stdout = <<>>
    /\ pr_textfile = None
    /\ pr_ret = None
    /\ pr_pc = "idle"

\* process_radolan_data, lines 708-709: the call of _process_year for the
\* next year folder; _process_year, lines 461-463: failed = []
PrYear ==
    /\ pr_pc = "year"
    /\ pr_yi <= Len(pr_tree)
    /\ pr_failed' = <<>>
    /\ pr_mi' = 1
    /\ pr_pc' = "month"
    /\ UNCHANGED <<pr_tree, pr_yi, pr_store, pr_stdout, pr_textfile, pr_ret>>

\* _process_year, lines 468-476: one pass of the loop over monthFolders;
\* the bare except takes every exception of the import
PrMonth ==
    /\ pr_pc = "month"
    /\ pr_mi <= Len(monthFolders(pr_tree, pr_yi))
    /\ LET monthFolder == monthFolders(pr_tree, pr_yi)[pr_mi]
       IN  IF pr_tree[monthFolder[1]][monthFolder[2]] = "ok"
           THEN /\ pr_store' = pr_store \cup {monthFolder}
                /\ pr_stdout' = Append(pr_stdout, <<"processed", monthFolder>>)
                /\ UNCHANGED pr_failed
           ELSE /\ pr_stdout' = Append(pr_stdout, <<"Error at", monthFolder>>)
                /\ pr_failed' = Append(pr_failed, monthFolder)
                /\ UNCHANGED pr_store
    /\ pr_mi' = pr_mi + 1
    /\ UNCHANGED <<pr_tree, pr_yi, pr_textfile, pr_ret, pr_pc>>

\* _process_year, line 477: return failed; process_radolan_data, line 709:
\* the call is a statement, the returned list is not bound to a name
PrYearReturn ==
    /\ pr_pc = "month"
    /\ pr_mi > Len(monthFolders(pr_tree, pr_yi))
    /\ pr_failed' = <<>>
    /\ pr_yi' = pr_yi + 1
    /\ pr_pc' = "year"
    /\ UNCHANGED <<pr_tree, pr_mi, pr_store, pr_stdout, pr_textfile, pr_ret>>

\* process_radolan_data, after line 709: the function ends, it returns None
\* and has written no file other than the HDF5 file
PrReturn ==
    /\ pr_pc = "year"
    /\ pr_yi > Len(pr_tree)
    /\ pr_ret' = ReturnedNone
    /\ pr_pc' = "done"
    /\ UNCHANGED <<pr_tree, pr_yi, pr_mi, pr_failed, pr_store, pr_stdout, pr_textfile>>

(***************************************************************************)
(* Specifications                                                          *)
(***************************************************************************)
\* Variables a component leaves alone: those of all other components
notHdr == <<rleVars, decVars, rfVars, ldVars, impVars, cmpVars, pintVars, fhrVars, lmVars, arVars, lyVars, h5Vars, rtVars, prVars>>
notRle == <<hdrVars, decVars, rfVars, ldVars, impVars, cmpVars, pintVars, fhrVars, lmVars, arVars, lyVars, h5Vars, rtVars, prVars>>
notDec == <<hdrVars, rleVars, rfVars, ldVars, impVars, cmpVars, pintVars, fhrVars, lmVars, arVars, lyVars, h5Vars, rtVars, prVars>>
notRf == <<hdrVars, rleVars, decVars, ldVars, impVars, cmpVars, pintVars, fhrVars, lmVars, arVars, lyVars, h5Vars, rtVars, prVars>>
notLd == <<hdrVars, rleVars, decVars, rfVars, impVars, cmpVars, pintVars, fhrVars, lmVars, arVars, lyVars, h5Vars, rtVars, prVars>>

InitHeader == HdrInit /\ RleIdle /\ DecIdle /\ RfIdle /\ LdIdle /\ ImpIdle /\ CmpIdle /\ PintIdle /\ FhrIdle /\ LmIdle /\ ArIdle /\ LyIdle /\ H5Idle /\ RtIdle /\ PrIdle
NextHeader ==
    \/ HdrReadByte /\ UNCHANGED notHdr
    \/ HdrReadAtEof /\ UNCHANGED notHdr
SpecHeader == InitHeader /\ [][NextHeader]_vars

InitRunlength == RleInit /\ HdrIdle /\ DecIdle /\ RfIdle /\ LdIdle /\ ImpIdle /\ CmpIdle /\ PintIdle /\ FhrIdle /\ LmIdle /\ ArIdle /\ LyIdle /\ H5Idle /\ RtIdle /\ PrIdle
NextRunlength == RleDecode /\ UNCHANGED notRle
SpecRunlength == InitRunlength /\ [][NextRunlength]_vars

InitDecode16 == DecInit /\ HdrIdle /\ RleIdle /\ RfIdle /\ LdIdle /\ ImpIdle /\ CmpIdle /\ PintIdle /\ FhrIdle /\ LmIdle /\ ArIdle /\ LyIdle /\ H5Idle /\ RtIdle /\ PrIdle
NextDecode16 == DecDecode /\ UNCHANGED notDec
SpecDecode16 == InitDecode16 /\ [][NextDecode16]_vars

InitRFactor == RfInit /\ HdrIdle /\ RleIdle /\ DecIdle /\ LdIdle /\ ImpIdle /\ CmpIdle /\ PintIdle /\ FhrIdle /\ LmIdle /\ ArIdle /\ LyIdle /\ H5Idle /\ RtIdle /\ PrIdle
NextRFactor ==
    \/ RfCheckNaN /\ UNCHANGED notRf
    \/ RfOuterDry /\ UNCHANGED notRf
    \/ RfOuterRain /\ UNCHANGED notRf
    \/ RfReturn /\ UNCHANGED notRf
    \/ RfInnerStep /\ UNCHANGED notRf
    \/ RfEventEnd /\ UNCHANGED notRf
SpecRFactor == InitRFactor /\ [][NextRFactor]_vars

\* The loops of calc_R_factor run to their end: no step that can be taken is
\* put off for ever
InitRFactorFair == RfInitScan /\ HdrIdle /\ RleIdle /\ DecIdle /\ LdIdle /\ ImpIdle /\ CmpIdle /\ PintIdle /\ FhrIdle /\ LmIdle /\ ArIdle /\ LyIdle /\ H5Idle /\ RtIdle /\ PrIdle
SpecRFactorFair == InitRFactorFair /\ [][NextRFactor]_vars /\ WF_vars(NextRFactor)

InitLoad == LdInit /\ HdrIdle /\ RleIdle /\ DecIdle /\ RfIdle /\ ImpIdle /\ CmpIdle /\ PintIdle /\ FhrIdle /\ LmIdle /\ ArIdle /\ LyIdle /\ H5Idle /\ RtIdle /\ PrIdle
NextLoad == LdLoad /\ UNCHANGED notLd
SpecLoad == InitLoad /\ [][NextLoad]_vars

notImp == <<hdrVars, rleVars, decVars, rfVars, ldVars, cmpVars, pintVars, fhrVars, lmVars, arVars, lyVars, h5Vars, rtVars, prVars>>
InitImport == ImpInit /\ HdrIdle /\ RleIdle /\ DecIdle /\ RfIdle /\ LdIdle /\ CmpIdle /\ PintIdle /\ FhrIdle /\ LmIdle /\ ArIdle /\ LyIdle /\ H5Idle /\ RtIdle /\ PrIdle
NextImport ==
    \/ ImpReadMetadata /\ UNCHANGED notImp
    \/ ImpFile /\ UNCHANGED notImp
    \/ ImpFinalize /\ UNCHANGED notImp
SpecImport == InitImport /\ [][NextImport]_vars

notCmp == <<hdrVars, rleVars, decVars, rfVars, ldVars, impVars, pintVars, fhrVars, lmVars, arVars, lyVars, h5Vars, rtVars, prVars>>
InitComposite == CmpInit /\ HdrIdle /\ RleIdle /\ DecIdle /\ RfIdle /\ LdIdle /\ ImpIdle /\ PintIdle /\ FhrIdle /\ LmIdle /\ ArIdle /\ LyIdle /\ H5Idle /\ RtIdle /\ PrIdle
NextComposite ==
    \/ CmpParseHeader /\ UNCHANGED notCmp
    \/ CmpReadBinary /\ UNCHANGED notCmp
    \/ CmpDecode /\ UNCHANGED notCmp
SpecComposite == InitComposite /\ [][NextComposite]_vars

notPint == <<hdrVars, rleVars, decVars, rfVars, ldVars, impVars, cmpVars, fhrVars, lmVars, arVars, lyVars, h5Vars, rtVars, prVars>>
InitParseINT == PintInit /\ HdrIdle /\ RleIdle /\ DecIdle /\ RfIdle /\ LdIdle /\ ImpIdle /\ CmpIdle /\ FhrIdle /\ LmIdle /\ ArIdle /\ LyIdle /\ H5Idle /\ RtIdle /\ PrIdle
NextParseINT ==
    \/ PintParse /\ UNCHANGED notPint
SpecParseINT == InitParseINT /\ [][NextParseINT]_vars

notFhr == <<hdrVars, rleVars, decVars, rfVars, ldVars, impVars, cmpVars, pintVars, lmVars, arVars, lyVars, h5Vars, rtVars, prVars>>
InitHeavyRain == FhrInit /\ HdrIdle /\ RleIdle /\ DecIdle /\ RfIdle /\ LdIdle /\ ImpIdle /\ CmpIdle /\ PintIdle /\ LmIdle /\ ArIdle /\ LyIdle /\ H5Idle /\ RtIdle /\ PrIdle
NextHeavyRain ==
    \/ FhrFreq /\ UNCHANGED notFhr
    \/ FhrSeason /\ UNCHANGED notFhr
    \/ FhrMonth /\ UNCHANGED notFhr
    \/ FhrReturn /\ UNCHANGED notFhr
    \/ FhrResample /\ UNCHANGED notFhr
SpecHeavyRain == InitHeavyRain /\ [][NextHeavyRain]_vars

notLm == <<hdrVars, rleVars, decVars, rfVars, ldVars, impVars, cmpVars, pintVars, fhrVars, arVars, lyVars, h5Vars, rtVars, prVars>>
InitMonths == LmInit /\ HdrIdle /\ RleIdle /\ DecIdle /\ RfIdle /\ LdIdle /\ ImpIdle /\ CmpIdle /\ PintIdle /\ FhrIdle /\ ArIdle /\ LyIdle /\ H5Idle /\ RtIdle /\ PrIdle
NextMonths ==
    \/ LmLoad /\ UNCHANGED notLm
SpecMonths == InitMonths /\ [][NextMonths]_vars

notAr == <<hdrVars, rleVars, decVars, rfVars, ldVars, impVars, cmpVars, pintVars, fhrVars, lmVars, lyVars, h5Vars, rtVars, prVars>>
InitAnnual == ArInit /\ HdrIdle /\ RleIdle /\ DecIdle /\ RfIdle /\ LdIdle /\ ImpIdle /\ CmpIdle /\ PintIdle /\ FhrIdle /\ LmIdle /\ LyIdle /\ H5Idle /\ RtIdle /\ PrIdle
NextAnnual ==
    \/ ArStart /\ UNCHANGED notAr
    \/ ArMonth /\ UNCHANGED notAr
    \/ ArYear /\ UNCHANGED notAr
    \/ ArReturn /\ UNCHANGED notAr
SpecAnnual == InitAnnual /\ [][NextAnnual]_vars

notLy == <<hdrVars, rleVars, decVars, rfVars, ldVars, impVars, cmpVars, pintVars, fhrVars, lmVars, arVars, h5Vars, rtVars, prVars>>
InitYears == LyInit /\ HdrIdle /\ RleIdle /\ DecIdle /\ RfIdle /\ LdIdle /\ ImpIdle /\ CmpIdle /\ PintIdle /\ FhrIdle /\ LmIdle /\ ArIdle /\ H5Idle /\ RtIdle /\ PrIdle
NextYears ==
    \/ LyStart /\ UNCHANGED notLy
    \/ LyJanuary /\ UNCHANGED notLy
    \/ LyMonth /\ UNCHANGED notLy
    \/ LyYearEnd /\ UNCHANGED notLy
    \/ LyFinish /\ UNCHANGED notLy
    \/ LyWrapper /\ UNCHANGED notLy
    \/ LyHydro /\ UNCHANGED notLy
SpecYears == InitYears /\ [][NextYears]_vars

notH5 == <<hdrVars, rleVars, decVars, rfVars, ldVars, impVars, cmpVars, pintVars, fhrVars, lmVars, arVars, lyVars, rtVars, prVars>>
InitHdf5 == H5Init /\ HdrIdle /\ RleIdle /\ DecIdle /\ RfIdle /\ LdIdle /\ ImpIdle /\ CmpIdle /\ PintIdle /\ FhrIdle /\ LmIdle /\ ArIdle /\ LyIdle /\ RtIdle /\ PrIdle
NextHdf5 ==
    \/ H5Import /\ UNCHANGED notH5
SpecHdf5 == InitHdf5 /\ [][NextHdf5]_vars

notRt == <<hdrVars, rleVars, decVars, rfVars, ldVars, impVars, cmpVars, pintVars, fhrVars, lmVars, arVars, lyVars, h5Vars, prVars>>
InitRoundtrip == RtInit /\ HdrIdle /\ RleIdle /\ DecIdle /\ RfIdle /\ LdIdle /\ ImpIdle /\ CmpIdle /\ PintIdle /\ FhrIdle /\ LmIdle /\ ArIdle /\ LyIdle /\ H5Idle /\ PrIdle
NextRoundtrip ==
    \/ RtImport /\ UNCHANGED notRt
    \/ RtLoadMonth /\ UNCHANGED notRt
SpecRoundtrip == InitRoundtrip /\ [][NextRoundtrip]_vars

notPr == <<hdrVars, rleVars, decVars, rfVars, ldVars, impVars, cmpVars, pintVars, fhrVars, lmVars, arVars, lyVars, h5Vars, rtVars>>
InitProcess == PrInit /\ HdrIdle /\ RleIdle /\ DecIdle /\ RfIdle /\ LdIdle /\ ImpIdle /\ CmpIdle /\ PintIdle /\ FhrIdle /\ LmIdle /\ ArIdle /\ LyIdle /\ H5Idle /\ RtIdle
NextProcess ==
    \/ PrYear /\ UNCHANGED notPr
    \/ PrMonth /\ UNCHANGED notPr
    \/ PrYearReturn /\ UNCHANGED notPr
    \/ PrReturn /\ UNCHANGED notPr
SpecProcess == InitProcess /\ [][NextProcess]_vars

(***************************************************************************)
(* Claims                                                                  *)
(***************************************************************************)
\* C1: on a stream without an ETX byte read_radolan_header never returns a
\* header, and once a read has hit the end of the stream the call has ended
\* with an error (it does not go on reading).
C1_MissingEtxIsAnError ==
    ~HasEtx(fid) =>
        /\ hpc # "returned"
        /\ (eofReads > 0 => hpc = "raised")

\* C2: decode_radolan_runlength_line returns a row of exactly ncol cells
\* for every line.
C2_RowHasNcolCells ==
    (rpc = "done" /\ Len(rline) >= 2 /\ rline[Len(rline)] = LF)
        => (rres.kind = "row" /\ Len(rres.row) = rncol)

\* C10: for product RD a cell with bit 14 set and bit 13 clear decodes to
\* -(raw & 0xFFF) * precision; for every other product bit 14 does not
\* change the value, (raw & 0xFFF) * precision.
C10_Bit14NegatesOnlyRD ==
    dpc = "done" =>
        \A k \in 1..Len(indat) :
            ~Bit(indat[k], 13) =>
                arr16[k] = IF producttype = "RD" /\ Bit(indat[k], 14)
                         THEN -(indat[k] % (mask + 1)) * precision
                         ELSE (indat[k] % (mask + 1)) * precision

\* Python indices of the intervals with precipitation > 0
RainyIdx == {k \in 0..(Len(column) - 1) : Rainy(column, k)}

\* Every run of consecutive intervals without rain between a and b has at
\* most six_hours intervals
ShortPauses(a, b) ==
    ~\E j \in (a + 1)..(b - 1) :
        /\ j + SixHours(freq_min) < b
        /\ \A k \in j..(j + SixHours(freq_min)) : ~Rainy(column, k)

\* Interval k lies in the window of event number e
InEvent(k, e) == events[e].lo <= k /\ k < events[e].hi

C6_Witness ==
    /\ rfpc = "done"
    /\ column = TwoBursts8h
    /\ n_rains = 2
    /\ Len(events) = 2

C7_WitnessNumeric ==
    /\ rfpc = "done"
    /\ NanCount(column) > 0
    /\ n_rains = 1
    /\ R > 0

\* The adjacent month that the carry of the request would pull in is absent
PrevMissing == ~HasKey(HDF5_file, PrevKey(year, month)[1], PrevKey(year, month)[2])
NextMissing == ~HasKey(HDF5_file, NextKey(year, month)[1], NextKey(year, month)[2])

\* C8: when an adjacent month that Load would pull in is not in the
\* archive, Load does not raise and returns exactly the requested month(s)
\* together with the carry month that is present and needed, for January,
\* December and months in between.
C8_MissingNeighbourIsNoError ==
    (lpc = "done" /\ (PrevMissing \/ NextMissing)) =>
        /\ loaded.kind = "returned"
        /\ \A k \in 1..Len(loaded.df) :
              HasKey(HDF5_file, MonthOf(loaded.df[k].t)[1], MonthOf(loaded.df[k].t)[2])
        /\ \A j \in 1..Len(month) : RowsOfMonth(loaded.df, year, month[j]) = PartLen

ImpDone == ipc \in {"returned", "raised"}
AllNaN(row) == \A k \in 1..Len(row) : IsNaN(row[k])
\* The folder has a file that decodes, all files that decode have the grid
\* of the pre-read, and every id of the id array is inside the grid
CleanApartFromCorrupt ==
    /\ \E k \in 1..Len(files) : ~files[k].corrupt
    /\ \A k \in 1..Len(files) : ~files[k].corrupt => files[k].nrow * ncol1 = gridSize
    /\ idArr.kind = "array"
    /\ \A k \in 1..Len(idArr.ids) : idArr.ids[k] >= 0 /\ idArr.ids[k] < gridSize

\* C3: when the decode of the file at some position of the listing raises
\* (the first position included), the import does not fail as a whole, and
\* the result has an all-NaN row at the time of the file's name.
C3_CorruptFileGivesNaNRow ==
    (ImpDone /\ CleanApartFromCorrupt) =>
        /\ ipc = "returned"
        /\ \A k \in 1..Len(files) :
              files[k].corrupt =>
                 \E j \in 1..Len(dfOut) :
                    dfOut[j].t = files[k].name /\ AllNaN(dfOut[j].row)

\* Did the try block of the loop raise for this file?
DecodeRaised(file) == TryFile(file, gridSize, idArr.ids).out.kind = "raise"
FailingNames ==
    LET failing == SelectSeq(files, DecodeRaised)
    IN  [k \in 1..Len(failing) |-> failing[k].name]

\* C4: after the import the skip list holds exactly the files whose decode
\* raised, in processing order, each with its message, and it has been
\* written out when it is not empty.
C4_SkipListExactAndWritten ==
    (ImpDone /\ gridSize > 0) =>
        /\ skipped_files = FailingNames
        /\ Len(error_messages) = Len(skipped_files)
        /\ (Len(FailingNames) > 0 =>
               /\ written.kind = "file"
               /\ written.entries = ZipSkipped(skipped_files, error_messages))

\* C5: when the import of an RW (RY) folder finishes, the row timestamps
\* increase by exactly one hour (five minutes) from row to row, and every
\* timestamp of a file of the listing is a row, whatever the listing order.
C5_IndexRegularWhateverTheOrder ==
    ipc = "returned" =>
        LET step == FreqStep(files[1].producttype)
        IN  /\ \A k \in 1..(Len(dfOut) - 1) : dfOut[k + 1].t = dfOut[k].t + step
            /\ \A k \in 1..Len(ind) : \E j \in 1..Len(dfOut) : dfOut[j].t = ind[k]

\* C9: with an id array that has an id outside [0, nrow*ncol), negative or
\* too large, the clip of every decoded grid ends in an IndexError: the file
\* is on the skip list with that error and its row holds no data.
C9_OutOfRangeIdIsIndexError ==
    (/\ ipc \in {"loop", "returned", "raised"}
     /\ gridSize > 0
     /\ \E k \in 1..Len(idArr.ids) : idArr.ids[k] < 0 \/ idArr.ids[k] >= gridSize) =>
        \A k \in 1..fi :
           (~files[k].corrupt /\ files[k].nrow * ncol1 = gridSize) =>
              /\ \E j \in 1..Len(skipped_files) :
                    skipped_files[j] = files[k].name /\ error_messages[j] = "IndexError"
              /\ AllNaN(dataArr[k])

\* The payload behind the header is shorter than the declared datasize
PayloadShort == cattrs /= None /\ Len(cpayload) < cattrs.datasize

PlainMinutes == Len(int_token) >= 2 /\ PyInt(int_token).kind = "int"
\* The token value is a number followed by the day marker "U" and one more
\* character
DayMarked ==
    /\ Len(int_token) >= 3
    /\ int_token[Len(int_token) - 1] = "U"
    /\ PyInt(SubSeq(int_token, 1, Len(int_token) - 2)).kind = "int"

\* C12: intervalseconds is the INT value times 60 without a day marker and
\* the INT value times 60*24 with the "U" marker, and it is present in the
\* metadata in both cases.
C12_IntervalSecondsBothUnits ==
    int_pc = "done" =>
        /\ PlainMinutes =>
              /\ int_out.kind = "out"
              /\ int_out.has_intervalseconds
              /\ int_out.intervalseconds = PyInt(int_token).v * 60
        /\ DayMarked =>
              /\ int_out.kind = "out"
              /\ int_out.has_intervalseconds
              /\ int_out.intervalseconds =
                    PyInt(SubSeq(int_token, 1, Len(int_token) - 2)).v * (60 * 24)

HrYears == YearsRange(year_start, year_end)
\* The partitions a season asks for: its months in every year of the call
ScannedKeys(monthList) ==
    { <<HrYears[a], monthList[b]>> : a \in 1..Len(HrYears), b \in 1..Len(monthList) }
\* Timestamps of the rows of these partitions at which more than minArea
\* cells hold at least thresholdValue
HeavyTimestamps(keys) ==
    UNION { { HDFFile[key][k].t : k \in { j \in 1..Len(HDFFile[key]) :
                Cardinality({ c \in 1..Len(HDFFile[key][j].row) :
                                ~IsNaN(HDFFile[key][j].row[c])
                                /\ HDFFile[key][j].row[c] >= thresholdValue }) > minArea } }
            : key \in keys }

\* C13: for a season token, find_heavy_rainfalls returns exactly the
\* timestamps of the scanned months at which the number of cells with a
\* value >= thresholdValue is strictly greater than minArea (so with
\* minArea = 0 a timestamp with exactly one such cell is returned).
C13_ReturnsExactlyTheExceedances ==
    (/\ fhpc = "done"
     /\ hentry = "find_heavy_rainfalls"
     /\ SeasonMonths(season) /= None
     /\ HrYears /= <<>>
     /\ ScannedKeys(SeasonMonths(season).v) \subseteq DOMAIN HDFFile) =>
        /\ hresult.kind = "df"
        /\ { hresult.rows[k].t : k \in 1..Len(hresult.rows) }
              = HeavyTimestamps(ScannedKeys(SeasonMonths(season).v))
        /\ \A a, b \in 1..Len(hresult.rows) :
              a /= b => hresult.rows[a].t /= hresult.rows[b].t

\* C14: for a season given as a list of months both functions scan exactly
\* the listed months of every year, and count_heavy_rainfall_intervals
\* returns sums per month.
C14_ListSeasonScansListedMonths ==
    (/\ fhpc = "done"
     /\ season.kind = "list"
     /\ HrYears /= <<>>
     /\ ScannedKeys(season.v) \subseteq DOMAIN HDFFile) =>
        /\ hresult.kind \in {"df", "counts"}
        /\ { hloads[k] : k \in 1..Len(hloads) } = ScannedKeys(season.v)
        /\ hentry = "count_heavy_rainfall_intervals" => hfreq = Str("M")

RecognisedTokens ==
    {"Year", "April - September", "October - March", "January/December", "Jan", "Feb",
     "Mar", "Apr", "May", "Jun", "Jul", "Aug", "Sep", "Oct", "Nov", "Dec"}

\* C15: with a season string that is no recognised token, no partition is
\* ever loaded, no month list is assumed, and the call ends with an error.
C15_UnknownSeasonFailsBeforeLoading ==
    (season.kind = "str" /\ season.v \notin RecognisedTokens) =>
        /\ hloads = <<>>
        /\ hmonths = None
        /\ heavy_rains = None
        /\ fhpc /= "resample"
        /\ fhpc = "done" => hresult.kind = "raise"

\* count_heavy_rainfall_intervals has ended with an error for "Summer"
C15_Witness ==
    /\ fhpc = "done"
    /\ hentry = "count_heavy_rainfall_intervals"
    /\ season = Str("Summer")
    /\ HrYears /= <<>>
    /\ hresult = Raise("UnboundLocalError")
    /\ hloads = <<>>

\* Timestamps of the rows the requested partitions hold
RequestedTimes ==
    UNION { { lm_file[<<lm_year, lm_months[k]>>][j].t :
                j \in 1..Len(lm_file[<<lm_year, lm_months[k]>>]) } :
            k \in { i \in 1..Len(lm_months) : <<lm_year, lm_months[i]>> \in DOMAIN lm_file } }
\* The requested partitions, put one after the other, leave out an interval
\* between their first and their last row
ConcatenationHasGap ==
    /\ \A k \in 1..Len(lm_months) : <<lm_year, lm_months[k]>> \in DOMAIN lm_file
    /\ \E t \in MonthStart(lm_year, 1)..(MonthStart(lm_year, 4) - 1) :
          /\ t \notin RequestedTimes
          /\ \E a, b \in RequestedTimes : a < t /\ t < b

\* C17: load_months_from_hdf5 ends with a continuity error whenever the
\* concatenated partitions leave a gap in the regular index, and a table it
\* returns holds no row that belongs to no requested partition.
C17_GapIsAContinuityError ==
    lm_pc = "done" =>
        /\ ConcatenationHasGap => lm_out = Raise("ContinuityError")
        /\ lm_out.kind = "returned" =>
              \A k \in 1..Len(lm_out.df) : lm_out.df[k].t \in RequestedTimes

\* NaN intervals of the column within the whole year k of the call
YearNanCount(k) ==
    LET RECURSIVE cnt(_)
        cnt(mo) == IF mo > 12 THEN 0
                   ELSE NanCount(ar_file[<<ar_years[k], mo>>]) + cnt(mo + 1)
    IN  cnt(1)

\* C18: annual_R_factor gives NaN for a year exactly when the NaN intervals
\* of the column within the whole year exceed the intervals of
\* max_nan_days days; a year within that bound gets a number for the R
\* factor and for the count of rains, wherever its NaN intervals lie.
C18_YearIsNaNIffYearExceeds ==
    ar_pc = "done" =>
        \A k \in 1..Len(ar_years) :
            LET exceeds == YearNanCount(k) > MaxNanIntervals(ar_max_nan_days, ar_freq_min)
            IN  /\ IsNaN(RannualDF[k]) <=> exceeds
                /\ IsNaN(NannualDF[k]) <=> exceeds

\* The partitions a call asks for: every month of every year of the call
YearsRequested ==
    { <<yr, mo>> : yr \in ly_year_start..FixYearEnd(ly_year_start, ly_year_end), mo \in 1..12 }
YearsLoaders ==
    {"load_years_and_resample", "hdf5_to_years", "hdf5_to_months", "hdf5_to_days",
     "hdf5_to_hours"}

\* C16: when a month that load_years_and_resample or one of its wrappers
\* asks for is missing from the archive, the call ends with an error; it
\* does not return normally (with None or an empty table).
C16_MissingMonthPropagates ==
    (/\ ly_pc = "done"
     /\ ly_entry \in YearsLoaders
     /\ FrequencyOf(ly_freq) /= None
     /\ ~(YearsRequested \subseteq DOMAIN ly_file)) =>
        ly_out.kind = "raise"

\* C19: every aggregate that a resampling function returns carries a label
\* that marks the end of the period accumulated in it: the label is not
\* earlier than the day of the last interval of the archive that was added
\* to the aggregate.
C19_LabelMarksTheEndOfThePeriod ==
    (ly_pc = "done" /\ ly_out.kind = "returned") =>
        \A k \in 1..Len(ly_out.df) :
            ly_out.df[k].t + DayTicks > ly_out.df[k].last

\* The calls so far that wrote the dataset key
ImportsInto(key) ==
    { i \in 1..Len(h5_log) :
        /\ DatasetOfPath(h5_log[i].x).kind = "key"
        /\ <<DatasetOfPath(h5_log[i].x).year, DatasetOfPath(h5_log[i].x).month>> = key
        /\ h5_log[i].content.kind = "returned" }

\* C20: after any sequence of imports the table stored under a key holds
\* exactly the rows of the most recent import into that key; importing the
\* same files into the same key twice gives the same table as importing
\* them once, with no duplicated rows.
C20_PartitionIsTheLastImport ==
    \A key \in DOMAIN h5_store :
        /\ ImportsInto(key) /= {}
        /\ h5_store[key] = h5_log[SetMax(ImportsInto(key))].content.df

\* The same folder with the same content was imported twice in a row
C20_Witness ==
    /\ Len(h5_log) >= 2
    /\ h5_log[Len(h5_log)] = h5_log[Len(h5_log) - 1]
    /\ h5_log[Len(h5_log)].content.kind = "returned"
    /\ Len(h5_log[Len(h5_log)].content.df) = 2
    /\ DatasetOfPath(h5_log[Len(h5_log)].x).kind = "key"
    /\ h5_exc = None
    /\ <<"2008", "5">> \in DOMAIN h5_store

\* C21: a month imported from <inFolder>/YYYY/M or <inFolder>/YYYY/0M, with
\* or without a trailing separator, is stored under the key that
\* load_month(YYYY, M) reads: load_month returns exactly the imported table.
C21_ImportedMonthIsLoadable ==
    (/\ rt_pc = "done"
     /\ rt_exc = None
     /\ rt_year = rt_folder.yr
     /\ rt_month = rt_folder.mo) =>
        rt_out = Returned(rt_content.df)

\* C22: after process_radolan_data, every month directory whose import
\* failed is in a persistent list that can be enumerated (the text file of
\* directories that could not be processed, or the value returned), and
\* the other month directories of the tree are in the HDF5 file.
C22_FailedMonthsAreListed ==
    pr_pc = "done" =>
        \A y \in 1..Len(pr_tree) : \A k \in 1..Len(pr_tree[y]) :
            /\ pr_tree[y][k] = "raise" =>
                   \/ /\ pr_textfile # None
                      /\ \E i \in 1..Len(pr_textfile.lines) : pr_textfile.lines[i] = <<y, k>>
                   \/ /\ pr_ret # ReturnedNone
                      /\ \E i \in 1..Len(pr_ret.value) : pr_ret.value[i] = <<y, k>>
            /\ pr_tree[y][k] = "ok" => <<y, k>> \in pr_store

\* C23: the window of an event that starts at index start and whose scan
\* stopped at cursor i is [start, i - six_hours) when the six_hours
\* intervals before i sum to zero and [start, i) otherwise. So an event
\* ended by the dry-run counter spans exactly from its first to its last
\* interval with precipitation > 0, and an event cut by the end of the
\* array with rain in its last six_hours intervals keeps every interval up
\* to the end of the array.
C23_WindowOfEvent ==
    \A n \in 1..Len(events) :
        LET e == events[n]
            six == SixHours(freq_min)
            from == IF e.stop - six < 0 THEN 0 ELSE e.stop - six
            trailing == PySlice(column, from, e.stop)
        IN  /\ e.lo = e.start
            /\ e.hi = IF nansum(trailing) = 0 THEN e.stop - six ELSE e.stop
            /\ e.stop < Len(column) =>
                   Rainy(column, e.lo) /\ Rainy(column, e.hi - 1)
            /\ (e.stop = Len(column) /\ nansum(trailing) # 0) => e.hi = Len(column)

\* What an interval value Nj adds to E as the text states it, by the
\* intensity I = Nj * (60/freq_min), in the unit of EnergyTerm
StatedEnergyTerm(Nj, freq) ==
    LET I == FMul(Nj, 60 \div freq)
    IN  IF FGt(FMul(I, 10), 5) /\ FLt(I, 762)
        THEN (1189 + (873 * Log10Milli(I)) \div 1000) * Nj
        ELSE IF FGe(I, 762)
        THEN 2833 * Nj
        ELSE 0
RECURSIVE StatedEnergy(_, _)
StatedEnergy(N, freq) ==
    IF N = <<>> THEN 0 ELSE StatedEnergyTerm(Head(N), freq) + StatedEnergy(Tail(N), freq)

\* C24: every interval N[j] of an erosive event adds to the energy E by its
\* intensity I = N[j]*(60/freq_min): (11.89 + 8.73*log10(I))*N[j]*1e-3 when
\* 0.05 < I < 76.2, 28.33*N[j]*1e-3 when I >= 76.2, nothing otherwise; at
\* every frequency an interval with I >= 76.2 adds more than nothing.
C24_EnergyByIntensity ==
    \A n \in 1..Len(events) :
        LET e == events[n]
            N == PySlice(column, e.lo, e.hi)
        IN  e.erosive =>
                /\ e.E = StatedEnergy(N, freq_min)
                /\ \A j \in 1..Len(N) :
                       FGe(FMul(N[j], 60 \div freq_min), 762) => EnergyTerm(N[j], freq_min) > 0

WindowSums(N, w) == { nansum(PySlice(N, k, k + w)) : k \in 0..(Len(N) - w) }

\* C26: for freq_min other than 60 the I30 of an event is twice the largest
\* sum over all windows of 30/freq_min consecutive intervals of the event
\* (twice the sum of the event when it is not longer than one window); for
\* freq_min = 60 it is the largest interval value, not doubled. calc_I30
\* and the computation inside calc_R_factor give the same value.
C26_I30IsTwiceTheWettestHalfHour ==
    \A n \in 1..Len(events) :
        LET e == events[n]
            N == PySlice(column, e.lo, e.hi)
            w == Window(freq_min)
        IN  /\ e.I30 = calc_I30(N, freq_min)
            /\ e.I30 = IF freq_min = 60
                       THEN SetMax({ N[j] : j \in {i \in 1..Len(N) : ~IsNaN(N[i])} })
                       ELSE IF Len(N) <= w THEN 2 * nansum(N)
                       ELSE 2 * SetMax(WindowSums(N, w))

\* calc_R_factor has evaluated a rain that is longer than one window and
\* whose wettest window is not the first one.
C26_Witness ==
    /\ rfpc = "done"
    /\ freq_min # 60
    /\ \E n \in 1..Len(events) :
           LET e == events[n]
               N == PySlice(column, e.lo, e.hi)
           IN  /\ Len(N) > Window(freq_min)
               /\ e.I30 > 2 * nansum(PySlice(N, 0, Window(freq_min)))

\* C27: in every outcome of Load, rows of the month before the requested
\* month(s) are in the returned table only if the first six hours of the
\* requested month(s) hold precipitation, and rows of the month after them
\* only if the last six hours hold precipitation, also on the paths taken
\* after an adjacent month or year was found to be unavailable.
C27_CarryOnlyWithRainAtTheBoundary ==
    (lpc = "done" /\ loaded.kind = "returned") =>
        LET df_month == load_months_from_hdf5(HDF5_file, year, month).df
            before == PrevKey(year, month)
            after == NextKey(year, month)
        IN  /\ RowsOfMonth(loaded.df, before[1], before[2]) > 0 =>
                   LeadRain(df_month, load_freq)
            /\ RowsOfMonth(loaded.df, after[1], after[2]) > 0 =>
                   TrailRain(df_month, load_freq)

\* C28: in radolan_binaries_to_dataframe the list of row timestamps has
\* exactly one entry per file read so far, at the position of the file,
\* whatever the outcome of each file, also for a file that fails after the
\* timestamp of its header was read (wrong grid size, id outside the
\* grid); the table is never built from an index whose length differs from
\* the number of files.
C28_OneTimestampPerFile ==
    ipc \in {"loop", "returned", "raised"} =>
        /\ Len(ind) = fi
        /\ \A k \in 1..fi :
              ind[k] \in {files[k].datetime, files[k].name, ReplaceMinute45(files[k].name)}
        /\ ipc = "returned" => Len(ind) = Len(files)

\* C29: for every series of values that are not negative or are NaN, each
\* interval with precipitation > 0 that the scan has passed lies in the
\* window of exactly one rain event: none is skipped when the scan resumes
\* behind an event, none lies outside the window of its event, none is in
\* the windows of two events.
C29_EveryRainInOneEvent ==
    (rfpc \in {"outer", "done"} /\ ~IsNaN(R)) =>
        \A a \in RainyIdx :
            a < cur => Cardinality({ e \in 1..Len(events) : InEvent(a, e) }) = 1

\* The scan has ended on a series with two events, the first one cut back
\* to its last rain, the second one open at the end of the series.
C29_Witness ==
    /\ rfpc = "done"
    /\ Len(events) = 2
    /\ events[1].hi < events[1].stop
    /\ events[2].stop = Len(column)
    /\ events[2].hi = Len(column)
    /\ Cardinality(RainyIdx) >= 2

\* C30: calc_R_factor terminates for every finite series: the cursor grows
\* in every pass of the outer and of the inner loop, no index >= len(series)
\* is read, and the function returns, also when the series ends while a
\* rain event is open.
C30_ScanTerminates ==
    /\ [][ (cur' # cur => cur' = cur + 1)
           /\ ((rfpc = "inner" \/ (rfpc = "outer" /\ rfpc' = "outer")) => cur' > cur) ]_rfVars
    /\ [](rfpc # "raised")
    /\ [](rfpc = "inner" /\ InnerContinues(rain_pause, freq_min) => cur + 1 <= Len(column))
    /\ [](rfpc = "outer" /\ cur < Len(column) => cur + 1 \in DOMAIN column)
    /\ <>(rfpc = "done")

\* calc_R_factor has returned on a series whose last interval is rainy: the
\* event was still open when the series ended.
C30_Witness ==
    /\ rfpc = "done"
    /\ Len(column) > 0
    /\ Rainy(column, Len(column) - 1)
    /\ Len(events) >= 1
    /\ events[Len(events)].stop = Len(column)
    /\ cur = Len(column) + 1

====
